---- MODULE Spec2Model ----
(***************************************************************************)
(* Single-elimination bracket generation and seeding of tournagen.         *)
(*                                                                         *)
(* generateSingleEliminationBracket (formats/single-elimination/           *)
(* generator.ts) and applySeedingMethod (utils/seeding) are pure           *)
(* functions: they are operators here, computed as the code computes       *)
(* them.  Spec calls the generator with a configuration and calls it a     *)
(* second time with the same configuration; SpecSeeding does the same      *)
(* with applySeedingMethod alone.                                          *)
(*                                                                         *)
(* Conventions.  Arrays are sequences, so the code's 0-based index k is    *)
(* position k + 1 here.  null is the participant-shaped value `null`.      *)
(* An absent seed is NoSeed and bracketSize "auto" is `auto`.  Ids are     *)
(* tuples: `round-2-match-1` is <<"round", 2, "match", 1>>, `third-place`  *)
(* is <<"third-place">> and an undefined feedsInto is <<>>.  isBye is      *)
(* "true", "false" or "undefined" (createEmptyMatch does not set the       *)
(* field).  An optional match (thirdPlaceMatch) is a sequence of length 0  *)
(* or 1.                                                                   *)
(***************************************************************************)
EXTENDS Integers, Sequences, FiniteSets, TLC

VARIABLES
    config,         \* the SingleEliminationConfig of the last generator call
    bracket,        \* << >> before the call, then <<the BracketStructure returned>>
    previous,       \* the result of the call before, when the call was repeated
    seedingCall,    \* the arguments of the last direct applySeedingMethod call
    seedingSlots,    \* << >> before the call, then the slot array returned
    previousSlots,  \* the slot array of the call before, when it was repeated
    registry,       \* the formats of tournamentFormatRegistry, in insertion order
    registryCall,   \* the last register call and how it ended
    tournamentState, \* the store: currentConfig, currentStructure, step, isDirty
    now,            \* the time new Date() returns
    storeCall,      \* the last store operation and how it ended
    localStorage,   \* the items of local storage, by key
    exportCall,     \* the last export, import, save or load and how it ended
    downloaded      \* whether the browser download was ever invoked

generatorVars == <<config, bracket, previous>>

seedingVars == <<seedingCall, seedingSlots, previousSlots>>

storeVars == <<registry, registryCall, tournamentState, now, storeCall>>

vars == <<config, bracket, previous, seedingCall, seedingSlots, previousSlots,
          registry, registryCall, tournamentState, now, storeCall,
          localStorage, exportCall, downloaded>>

exportVars == <<localStorage, exportCall, downloaded>>

----------------------------------------------------------------------------
(* Bounds of the explored inputs. *)

\* Rosters with arbitrary seed fields have at most this many participants.
MaxParticipants == 3

\* Explicit seed fields are drawn from 1..MaxSeed.
MaxSeed == 3

\* Rosters built like the tests' createParticipants(count) go up to this count.
MaxRoster == 6

\* manualSeedOrder has at most this many entries.
MaxManualLen == 2

\* The random method is explored on rosters of at most this many participants.
MaxShuffle == 3

\* Configured bracket sizes other than "auto" go up to 2 ^ MaxSizeExp for
\* rosters with arbitrary seeds, and to twice that for the other rosters.
MaxSizeExp == 2

\* A direct applySeedingMethod call asks for any bracketSize in 0..MaxSlots.
MaxSlots == 9

\* A random source returns one of the values k / RandomDenominator.
RandomDenominator == 6

\* The registry is explored up to this many registered formats.
MaxRegistered == 2

\* Formats of one type come in this many variants.
MaxVariants == 2

\* new Date() returns the times 0..MaxClock.
MaxClock == 1

\* updateMultipleParticipants gets at most this many updates.
MaxUpdates == 2

\* The dates of exported configs are 0..MaxTime ms after the epoch.
MaxTime == 1

\* goToNextStep and goToPreviousStep are repeated up to this many times.
MaxCalls == 4

----------------------------------------------------------------------------
(* Values *)

NoSeed == 0

null == [id |-> 0, seed |-> NoSeed]

undefinedId == << >>

MINIMUM_SLOTS == 2

\* bracketSize "auto" (a number otherwise).
auto == 0

SingleEliminationBracketSize == {auto, 2, 4, 8, 16, 32, 64, 128}

SingleEliminationSeedingMethod == {"random", "seeded", "manual"}

----------------------------------------------------------------------------
(* Arithmetic helpers *)

RECURSIVE CeilLog2(_)
\* Math.ceil(Math.log2(value)) for an integer value >= 1.
CeilLog2(value) == IF value <= 1 THEN 0 ELSE 1 + CeilLog2((value + 1) \div 2)

Max(S) == CHOOSE x \in S : \A y \in S : y <= x

\* nextPowerOfTwo of generator.ts
nextPowerOfTwo(value) == IF value <= 1 THEN 1 ELSE 2 ^ CeilLog2(value)

\* Mutant: the power of two strictly above the value.
seedingNextPowerOfTwoAbove(value) == IF value <= 1 THEN 1 ELSE 2 ^ CeilLog2(value + 1)

\* nextPowerOfTwo of utils/seeding, a copy of the generator's
seedingNextPowerOfTwo(value) == IF value <= 1 THEN 1 ELSE 2 ^ CeilLog2(value)

----------------------------------------------------------------------------
(* utils/seeding *)

\* Mutant: the opponent of seed s is nextSize - s.
ExpandOffByOne(order, nextSize) ==
    [k \in 1..(2 * Len(order)) |->
        IF k % 2 = 1 THEN order[(k + 1) \div 2] ELSE nextSize - order[k \div 2]]

\* Mutant: the opponents nextSize+1-s follow after all the seeds s.
ExpandAppended(order, nextSize) ==
    order \o [k \in 1..Len(order) |-> nextSize + 1 - order[k]]

\* One doubling step of buildSeedSlotOrder: every seed s becomes s, nextSize+1-s.
Expand(order, nextSize) ==
    [k \in 1..(2 * Len(order)) |->
        IF k % 2 = 1 THEN order[(k + 1) \div 2] ELSE nextSize + 1 - order[k \div 2]]

RECURSIVE GrowOrder(_, _)
GrowOrder(order, slotCount) ==
    IF Len(order) < slotCount THEN GrowOrder(Expand(order, Len(order) * 2), slotCount)
    ELSE order

buildSeedSlotOrder(slotCount) ==
    IF slotCount <= 1 THEN <<1>>
    ELSE SubSeq(GrowOrder(<<1, 2>>, slotCount), 1, slotCount)

\* index is the 0-based array index the code passes.
deriveSeed(participant, index) ==
    IF participant.seed = NoSeed THEN index + 1 ELSE participant.seed

\* Entry a sorts before entry b: smaller derived seed, then smaller index.
EntryBefore(a, b) == a.seed < b.seed \/ (a.seed = b.seed /\ a.index < b.index)

\* The entries in ascending order: the k-th is the one k - 1 entries sort before.
SortEntries(entries) ==
    [k \in 1..Cardinality(entries) |->
        (CHOOSE a \in entries :
            Cardinality({ b \in entries : EntryBefore(b, a) }) = k - 1).participant]

sortByDerivedSeed(participants) ==
    SortEntries({ [participant |-> participants[i],
                   seed |-> deriveSeed(participants[i], i - 1),
                   index |-> i - 1] : i \in 1..Len(participants) })

NullSlots(bracketSize) == [k \in 1..bracketSize |-> null]

\* slots.findIndex(slot => slot === null), 0-based, -1 when there is none.
findNullIndex(slots) ==
    IF \E k \in 1..Len(slots) : slots[k] = null
    THEN (CHOOSE k \in 1..Len(slots) :
             slots[k] = null /\ \A j \in 1..(k - 1) : slots[j] # null) - 1
    ELSE -1

\* seedToSlot.get(seedNumber): the 0-based slot of the seed, -1 for undefined.
seedToSlot(seedOrder, seedNumber) ==
    IF \E k \in 1..Len(seedOrder) : seedOrder[k] = seedNumber
    THEN (CHOOSE k \in 1..Len(seedOrder) :
             seedOrder[k] = seedNumber
             /\ \A j \in (k + 1)..Len(seedOrder) : seedOrder[j] # seedNumber) - 1
    ELSE -1

\* Mutant: the preferred slot is ignored.
placeRankedFirstFree(slots, seedOrder, participant, index) ==
    IF findNullIndex(slots) # -1
    THEN [slots EXCEPT ![findNullIndex(slots) + 1] = participant]
    ELSE slots

\* The body of rankedParticipants.forEach in applySeededPlacement.
placeRanked(slots, seedOrder, participant, index) ==
    LET seedNumber    == deriveSeed(participant, index)
        preferredSlot == seedToSlot(seedOrder, seedNumber)
        fallbackSlot  == findNullIndex(slots)
    IN  IF preferredSlot # -1 /\ slots[preferredSlot + 1] = null
        THEN [slots EXCEPT ![preferredSlot + 1] = participant]
        ELSE IF fallbackSlot # -1
             THEN [slots EXCEPT ![fallbackSlot + 1] = participant]
             ELSE slots

RECURSIVE placeAllRanked(_, _, _, _, _)
\* rankedParticipants.forEach over the 0-based indices from..to, in order (the
\* range is halved so that long rosters do not nest deeply).
placeAllRanked(slots, seedOrder, ranked, from, to) ==
    IF from > to THEN slots
    ELSE IF from = to THEN placeRanked(slots, seedOrder, ranked[from + 1], from)
    ELSE LET mid  == (from + to) \div 2
             left == placeAllRanked(slots, seedOrder, ranked, from, mid)
         IN  IF Len(left) >= 0   \* the first half is complete before the second starts
             THEN placeAllRanked(left, seedOrder, ranked, mid + 1, to)
             ELSE slots

applySeededPlacement(participants, bracketSize) ==
    placeAllRanked(NullSlots(bracketSize), buildSeedSlotOrder(bracketSize),
                   sortByDerivedSeed(participants), 0, Len(participants) - 1)

\* The body of manualOrder.forEach in applyManualPlacement.  st is
\* [slots, usedIds, slotIndex].
placeManual(st, participants, bracketSize, id) ==
    IF st.slotIndex >= bracketSize THEN st
    ELSE IF (~ \E i \in 1..Len(participants) : participants[i].id = id)
            \/ id \in st.usedIds
         THEN st
         ELSE LET \* participantsById: a later entry with the same id wins.
                  i == CHOOSE i \in 1..Len(participants) :
                           participants[i].id = id
                           /\ \A j \in (i + 1)..Len(participants) : participants[j].id # id
              IN  [slots     |-> [st.slots EXCEPT ![st.slotIndex + 1] = participants[i]],
                   usedIds   |-> st.usedIds \cup {id},
                   slotIndex |-> st.slotIndex + 1]

RECURSIVE placeAllManual(_, _, _, _)
placeAllManual(st, participants, bracketSize, manualOrder) ==
    IF manualOrder = << >> THEN st
    ELSE placeAllManual(placeManual(st, participants, bracketSize, Head(manualOrder)),
                        participants, bracketSize, Tail(manualOrder))

\* The body of remaining.forEach in applyManualPlacement.
RECURSIVE placeRemaining(_, _, _)
placeRemaining(st, bracketSize, remaining) ==
    IF remaining = << >> THEN st
    ELSE placeRemaining(
             IF st.slotIndex >= bracketSize THEN st
             ELSE [st EXCEPT !.slots[st.slotIndex + 1] = Head(remaining),
                             !.slotIndex = st.slotIndex + 1],
             bracketSize, Tail(remaining))

applyManualPlacement(participants, bracketSize, manualOrder) ==
    LET start     == [slots |-> NullSlots(bracketSize), usedIds |-> {}, slotIndex |-> 0]
        ordered   == placeAllManual(start, participants, bracketSize, manualOrder)
        remaining == sortByDerivedSeed(
                         SelectSeq(participants, LAMBDA p : p.id \notin ordered.usedIds))
    IN  placeRemaining(ordered, bracketSize, remaining).slots

\* A shuffle that never leaves position i in place: floor(randomFn() * i).
randomIndexBelow(r, i) == (r * i) \div RandomDenominator

\* Math.floor(randomFn() * (i + 1)) for the value r / RandomDenominator of
\* randomFn(), which lies in [0, 1).
randomIndex(r, i) == (r * (i + 1)) \div RandomDenominator

RECURSIVE shuffleFrom(_, _, _, _)
\* The loop of shuffleParticipants from 0-based position i down to 1; draws[k]
\* is the k-th value randomFn returns.
shuffleFrom(result, draws, k, i) ==
    IF i <= 0 THEN result
    ELSE LET j == randomIndex(draws[k], i)
         IN  shuffleFrom([result EXCEPT ![i + 1] = result[j + 1], ![j + 1] = result[i + 1]],
                         draws, k + 1, i - 1)

shuffleParticipants(participants, draws) ==
    shuffleFrom(participants, draws, 1, Len(participants) - 1)

\* options is [method, bracketSize, manualOrder, random]: bracketSize is
\* << >> (undefined) or <<n>>, manualOrder is << >> when undefined, and random
\* lists the values the random source (options.random, or Math.random
\* without one) returns during the call.
applySeedingMethod(participants, options) ==
    LET baseSize    == IF options.bracketSize = << >> THEN Len(participants)
                       ELSE options.bracketSize[1]
        bracketSize == Max({2, seedingNextPowerOfTwo(Max({baseSize, Len(participants)}))})
    IN  IF Len(participants) = 0 THEN NullSlots(bracketSize)
        ELSE IF options.method = "random"
        THEN LET shuffled == shuffleParticipants(participants, options.random)
             IN  [k \in 1..bracketSize |->
                     IF k <= Len(shuffled) THEN shuffled[k] ELSE null]
        ELSE IF options.method = "manual"
        THEN applyManualPlacement(participants, bracketSize, options.manualOrder)
        ELSE applySeededPlacement(participants, bracketSize)

----------------------------------------------------------------------------
(* formats/single-elimination/generator.ts *)

getRoundName(roundNumber, totalRounds) ==
    IF totalRounds = 1 THEN <<"Final">>
    ELSE IF roundNumber = totalRounds THEN <<"Final">>
    ELSE IF roundNumber = totalRounds - 1 THEN <<"Semifinals">>
    ELSE IF roundNumber = totalRounds - 2 THEN <<"Quarterfinals">>
    ELSE <<"Round", roundNumber>>

RoundId(roundNumber) == <<"round", roundNumber>>

MatchId(roundNumber, position) == <<"round", roundNumber, "match", position>>

\* Mutant: feedsInto rounds the sibling index up.
createEmptyMatchCeil(roundId, roundNumber, matchIndex, totalRounds) ==
    [id           |-> roundId \o <<"match", matchIndex + 1>>,
     roundId      |-> roundId,
     position     |-> matchIndex + 1,
     participant1 |-> null,
     participant2 |-> null,
     winner       |-> null,
     isBye        |-> "undefined",
     feedsInto    |-> IF roundNumber = totalRounds THEN undefinedId
                      ELSE MatchId(roundNumber + 1, ((matchIndex + 1) \div 2) + 1)]

\* matchIndex is 0-based, as in the code.
createEmptyMatch(roundId, roundNumber, matchIndex, totalRounds) ==
    [id           |-> roundId \o <<"match", matchIndex + 1>>,
     roundId      |-> roundId,
     position     |-> matchIndex + 1,
     participant1 |-> null,
     participant2 |-> null,
     winner       |-> null,
     isBye        |-> "undefined",
     feedsInto    |-> IF roundNumber = totalRounds THEN undefinedId
                      ELSE MatchId(roundNumber + 1, (matchIndex \div 2) + 1)]

\* Mutant: every winner goes to participant1 of the next match.
advanceMatchFirstSlot(nextMatches, match, index) ==
    IF match.winner = null THEN nextMatches
    ELSE LET t == (index \div 2) + 1
         IN  IF t > Len(nextMatches) THEN nextMatches
             ELSE IF nextMatches[t].participant1 = null
             THEN [nextMatches EXCEPT ![t].participant1 = match.winner]
             ELSE nextMatches

\* The body of currentRound.matches.forEach in applyByeAdvancement: the
\* matches of the next round after the match at 0-based index is handled.
advanceMatch(nextMatches, match, index) ==
    IF match.winner = null THEN nextMatches
    ELSE LET t == (index \div 2) + 1
         IN  IF t > Len(nextMatches) THEN nextMatches
             ELSE IF index % 2 = 0 /\ nextMatches[t].participant1 = null
             THEN [nextMatches EXCEPT ![t].participant1 = match.winner]
             ELSE IF index % 2 = 1 /\ nextMatches[t].participant2 = null
             THEN [nextMatches EXCEPT ![t].participant2 = match.winner]
             ELSE nextMatches

RECURSIVE advanceFrom(_, _, _, _)
\* currentRound.matches.forEach over the 0-based indices from..to, in order.
advanceFrom(nextMatches, currentMatches, from, to) ==
    IF from > to THEN nextMatches
    ELSE IF from = to THEN advanceMatch(nextMatches, currentMatches[from + 1], from)
    ELSE LET mid  == (from + to) \div 2
             left == advanceFrom(nextMatches, currentMatches, from, mid)
         IN  IF Len(left) >= 0   \* the first half is complete before the second starts
             THEN advanceFrom(left, currentMatches, mid + 1, to)
             ELSE nextMatches

\* roundIndex is 0-based; the caller guarantees a next round.
applyByeAdvancement(rounds, roundIndex) ==
    [rounds EXCEPT ![roundIndex + 2].matches =
        advanceFrom(rounds[roundIndex + 2].matches, rounds[roundIndex + 1].matches,
                    0, Len(rounds[roundIndex + 1].matches) - 1)]

RECURSIVE advanceRounds(_, _)
\* for (roundIndex = 0; roundIndex < rounds.length - 1; roundIndex += 1)
advanceRounds(rounds, roundIndex) ==
    IF roundIndex >= Len(rounds) - 1 THEN rounds
    ELSE advanceRounds(applyByeAdvancement(rounds, roundIndex), roundIndex + 1)

\* The body of firstRound.matches.forEach: the first-round match at 0-based
\* index receives its two slots and its bye status.
fillFirstRoundMatch(match, seededSlots, index) ==
    LET slotIndex    == index * 2
        participant1 == IF slotIndex + 1 <= Len(seededSlots)
                        THEN seededSlots[slotIndex + 1] ELSE null
        participant2 == IF slotIndex + 2 <= Len(seededSlots)
                        THEN seededSlots[slotIndex + 2] ELSE null
        filled       == [match EXCEPT !.participant1 = participant1,
                                      !.participant2 = participant2]
    IN  IF participant1 # null /\ participant2 # null
        THEN [filled EXCEPT !.isBye = "false", !.winner = null]
        ELSE IF participant1 = null /\ participant2 = null
        THEN [filled EXCEPT !.isBye = "false", !.winner = null]
        ELSE [filled EXCEPT !.isBye = "true",
                            !.winner = IF participant1 # null THEN participant1
                                       ELSE participant2]

\* Mutant: the configured size is taken as it is.
totalSlotsConfigured(cfg) ==
    Max({MINIMUM_SLOTS,
         IF cfg.options.bracketSize = auto THEN nextPowerOfTwo(Len(cfg.participants))
         ELSE cfg.options.bracketSize})

totalSlotsOf(cfg) ==
    LET participantCount == Len(cfg.participants)
        desiredSize == IF cfg.options.bracketSize = auto
                       THEN nextPowerOfTwo(participantCount)
                       ELSE cfg.options.bracketSize
    IN  Max({MINIMUM_SLOTS, desiredSize, participantCount,
             nextPowerOfTwo(participantCount)})

\* Mutant: the round count taken from the participant count.
totalRoundsFromCount(cfg) ==
    IF Len(cfg.participants) < 2 THEN 0 ELSE CeilLog2(Len(cfg.participants))

\* Mutant: no guard for fewer than two participants.
totalRoundsUnguarded(cfg) == CeilLog2(totalSlotsOf(cfg))

totalRoundsOf(cfg) ==
    IF Len(cfg.participants) < 2 THEN 0 ELSE CeilLog2(totalSlotsOf(cfg))

matchesInRound(totalSlots, roundNumber) == Max({1, totalSlots \div (2 ^ roundNumber)})

\* Mutant: a third-place match for any bracket with a round.
thirdPlaceMatchAlways(cfg, totalRounds) ==
    IF cfg.options.thirdPlacePlayoff /\ totalRounds >= 1
    THEN << [id |-> <<"third-place">>, roundId |-> <<"third-place">>, position |-> 1,
             participant1 |-> null, participant2 |-> null, winner |-> null,
             isBye |-> "false", feedsInto |-> undefinedId] >>
    ELSE << >>

thirdPlaceMatchOf(cfg, totalRounds) ==
    IF cfg.options.thirdPlacePlayoff /\ totalRounds >= 2
    THEN << [id           |-> <<"third-place">>,
             roundId      |-> <<"third-place">>,
             position     |-> 1,
             participant1 |-> null,
             participant2 |-> null,
             winner       |-> null,
             isBye        |-> "false",
             feedsInto    |-> undefinedId] >>
    ELSE << >>

\* draws are the values Math.random returns during the call.
generateSingleEliminationBracket(cfg, draws) ==
    LET totalSlots  == totalSlotsOf(cfg)
        totalRounds == totalRoundsOf(cfg)
        skeleton    ==
            [roundIdx \in 1..totalRounds |->
                [id          |-> RoundId(roundIdx),
                 name        |-> getRoundName(roundIdx, totalRounds),
                 roundNumber |-> roundIdx,
                 matches     |-> [m \in 1..matchesInRound(totalSlots, roundIdx) |->
                                     createEmptyMatch(RoundId(roundIdx), roundIdx,
                                                      m - 1, totalRounds)]]]
        slots       == applySeedingMethod(cfg.participants,
                           [method      |-> cfg.options.seedingMethod,
                            bracketSize |-> <<totalSlots>>,
                            manualOrder |-> cfg.options.manualSeedOrder,
                            random      |-> draws])
        seeded      ==
            [skeleton EXCEPT ![1].matches =
                [m \in 1..Len(skeleton[1].matches) |->
                    fillFirstRoundMatch(skeleton[1].matches[m], slots, m - 1)]]
    IN  IF Len(cfg.participants) = 0 \/ totalRounds = 0
        THEN [type |-> "bracket", rounds |-> << >>, thirdPlaceMatch |-> << >>]
        ELSE [type            |-> "bracket",
              rounds          |-> advanceRounds(seeded, 0),
              thirdPlaceMatch |-> thirdPlaceMatchOf(cfg, totalRounds)]

----------------------------------------------------------------------------
(* TournamentFormatRegistry (tournament/registry) and the builder store
   (tournament/store.ts).

   The registry's Map is the sequence of its values in insertion order.  A
   TournamentFormat is [type, name, valid]: metadata.type, metadata.name and
   the result of its validateConfig, which is a constant function in every
   format of the source.  A store participant is [id, name, seed]; the
   Partial<Participant> of an update is [id, name, seed] with each field
   << >> (absent) or <<value>>.  null and undefined values of the store are
   << >>, present ones <<value>>.  A Date is its time value in ms. *)

TournamentFormatType ==
    {"single-elimination", "double-elimination", "round-robin", "swiss",
     "ffa", "fifa", "racing-mk", "racing-f1"}

BuilderStep == {"format-selection", "configuration", "participants", "review"}

\* The formats the tests build: createTestFormat(formatType).
createTestFormat(formatType) ==
    [type |-> formatType, name |-> formatType \o " format", valid |-> TRUE]

\* this.formats.has(type)
has(formats, type) == \E i \in 1..Len(formats) : formats[i].type = type

\* A register that lets Map.set replace the format stored under the type.
registerReplacing(formats, format) ==
    [formats |-> IF has(formats, format.type)
                 THEN [i \in 1..Len(formats) |->
                          IF formats[i].type = format.type THEN format ELSE formats[i]]
                 ELSE Append(formats, format),
     threw   |-> FALSE,
     message |-> ""]

\* register(format): the registry after the call, and the error thrown.
register(formats, format) ==
    IF has(formats, format.type)
    THEN [formats |-> formats,
          threw   |-> TRUE,
          message |-> "Tournament format '" \o format.type \o "' is already registered."]
    ELSE [formats |-> Append(formats, format), threw |-> FALSE, message |-> ""]

\* get(type): << >> for undefined.
get(formats, type) ==
    IF has(formats, type)
    THEN <<formats[CHOOSE i \in 1..Len(formats) : formats[i].type = type]>>
    ELSE << >>

getAll(formats) == formats

initialState ==
    [currentConfig |-> << >>, currentStructure |-> << >>,
     step |-> "format-selection", isDirty |-> FALSE]

\* createDefaultConfig of the formats of registry-seed and of the tests.
createDefaultConfig(format, participants, timestamp) ==
    [id           |-> format.type \o "-config",
     name         |-> format.name,
     formatType   |-> format.type,
     participants |-> participants,
     createdAt    |-> timestamp,
     updatedAt    |-> timestamp]

\* generateStructure of the same formats for a bracket format.
createDefaultStructure == [type |-> "bracket", rounds |-> << >>]

\* tournamentState.currentConfig?.participants ?? []
currentParticipants(state) ==
    IF state.currentConfig = << >> THEN << >> ELSE state.currentConfig[1].participants

\* A setCurrentFormat whose participants default to the empty roster.
setCurrentFormatEmptyDefault(state, formats, formatType, participants, timestamp) ==
    LET format == get(formats, formatType)
        roster == IF participants = << >> THEN << >> ELSE participants[1]
    IN  IF format = << >>
        THEN [state   |-> state,
              threw   |-> TRUE,
              message |-> "Tournament format '" \o formatType \o "' is not registered."]
        ELSE [state   |-> [currentConfig    |-> <<[createDefaultConfig(format[1], roster, timestamp)
                                                      EXCEPT !.updatedAt = timestamp]>>,
                           currentStructure |-> << >>,
                           step             |-> "configuration",
                           isDirty          |-> FALSE],
              threw   |-> FALSE,
              message |-> ""]

\* A setCurrentFormat that falls back to the first registered format.
setCurrentFormatFallback(state, formats, formatType, participants, timestamp) ==
    LET format == IF get(formats, formatType) = << >> /\ formats # << >>
                  THEN <<formats[1]>> ELSE get(formats, formatType)
        roster == IF participants = << >> THEN currentParticipants(state)
                  ELSE participants[1]
    IN  IF format = << >>
        THEN [state   |-> state,
              threw   |-> TRUE,
              message |-> "Tournament format '" \o formatType \o "' is not registered."]
        ELSE [state   |-> [currentConfig    |-> <<[createDefaultConfig(format[1], roster, timestamp)
                                                      EXCEPT !.updatedAt = timestamp]>>,
                           currentStructure |-> << >>,
                           step             |-> "configuration",
                           isDirty          |-> FALSE],
              threw   |-> FALSE,
              message |-> ""]

\* setCurrentFormat(formatType, participants): participants is << >> when
\* the argument is omitted, <<roster>> otherwise.
setCurrentFormat(state, formats, formatType, participants, timestamp) ==
    LET format == get(formats, formatType)
        roster == IF participants = << >> THEN currentParticipants(state)
                  ELSE participants[1]
    IN  IF format = << >>
        THEN [state   |-> state,
              threw   |-> TRUE,
              message |-> "Tournament format '" \o formatType \o "' is not registered."]
        ELSE [state   |-> [currentConfig    |-> <<[createDefaultConfig(format[1], roster, timestamp)
                                                      EXCEPT !.updatedAt = timestamp]>>,
                           currentStructure |-> << >>,
                           step             |-> "configuration",
                           isDirty          |-> FALSE],
              threw   |-> FALSE,
              message |-> ""]

\* A setCurrentStep that also clears isDirty.
setCurrentStepClean(state, step) == [state EXCEPT !.step = step, !.isDirty = FALSE]

setCurrentStep(state, step) == [state EXCEPT !.step = step]

\* builderSteps of builder-steps.ts: the ids, in order.
builderSteps == <<"format-selection", "configuration", "participants", "review">>

\* findStepIndex(step): the 0-based index, -1 for a step that is not listed.
findStepIndex(step) ==
    IF \E i \in 1..Len(builderSteps) : builderSteps[i] = step
    THEN (CHOOSE i \in 1..Len(builderSteps) : builderSteps[i] = step) - 1
    ELSE -1

\* getPreviousStep(step): "null" for null.
getPreviousStep(step) ==
    LET currentIndex == findStepIndex(step)
    IN  IF currentIndex <= 0 THEN "null" ELSE builderSteps[currentIndex]

\* A getNextStep that wraps around after the last step.
getNextStepWrapping(step) ==
    LET currentIndex == findStepIndex(step)
    IN  IF currentIndex = -1 THEN "null"
        ELSE builderSteps[((currentIndex + 1) % Len(builderSteps)) + 1]

\* getNextStep(step): "null" for null.
getNextStep(step) ==
    LET currentIndex == findStepIndex(step)
    IN  IF currentIndex = -1 \/ currentIndex >= Len(builderSteps) - 1 THEN "null"
        ELSE builderSteps[currentIndex + 2]

\* A goToPreviousStep that goes back to the first step.
goToPreviousStepToFirst(state) ==
    LET target == getPreviousStep(state.step)
    IN  IF target = "null" THEN [state |-> state, result |-> "null"]
        ELSE [state |-> setCurrentStep(state, builderSteps[1]), result |-> builderSteps[1]]

\* goToPreviousStep() of navigation.ts: the state it leaves and what it
\* returns.
goToPreviousStep(state) ==
    LET target == getPreviousStep(state.step)
    IN  IF target = "null" THEN [state |-> state, result |-> "null"]
        ELSE [state |-> setCurrentStep(state, target), result |-> target]

\* goToNextStep() of navigation.ts.
goToNextStep(state) ==
    LET target == getNextStep(state.step)
    IN  IF target = "null" THEN [state |-> state, result |-> "null"]
        ELSE [state |-> setCurrentStep(state, target), result |-> target]

\* ({ ...participant, ...changes })
mergeParticipant(participant, changes) ==
    [id   |-> IF changes.id = << >> THEN participant.id ELSE changes.id[1],
     name |-> IF changes.name = << >> THEN participant.name ELSE changes.name[1],
     seed |-> IF changes.seed = << >> THEN participant.seed ELSE changes.seed[1]]

\* setTournamentState("currentConfig", "participants", filter, updater): the
\* updater is applied to every participant the filter accepts.
updateMatching(participants, participantId, changes) ==
    [i \in 1..Len(participants) |->
        IF participants[i].id = participantId
        THEN mergeParticipant(participants[i], changes)
        ELSE participants[i]]

\* The flag the filter sets: some participant has the id.
matches(participants, participantId) ==
    \E i \in 1..Len(participants) : participants[i].id = participantId

\* An updateParticipant that keeps the generated structure.
updateParticipantKeepingStructure(state, participantId, changes, timestamp) ==
    IF state.currentConfig = << >> THEN state
    ELSE IF ~ matches(state.currentConfig[1].participants, participantId) THEN state
    ELSE [state EXCEPT
            !.currentConfig[1].participants = updateMatching(@, participantId, changes),
            !.currentConfig[1].updatedAt = timestamp,
            !.isDirty = TRUE]

\* An updateParticipant that marks the store dirty without a match.
updateParticipantAlwaysDirty(state, participantId, changes, timestamp) ==
    IF state.currentConfig = << >> THEN state
    ELSE [state EXCEPT
            !.currentConfig[1].participants = updateMatching(@, participantId, changes),
            !.currentConfig[1].updatedAt = timestamp,
            !.currentStructure = << >>,
            !.isDirty = TRUE]

updateParticipant(state, participantId, changes, timestamp) ==
    IF state.currentConfig = << >> THEN state
    ELSE IF ~ matches(state.currentConfig[1].participants, participantId) THEN state
    ELSE [state EXCEPT
            !.currentConfig[1].participants = updateMatching(@, participantId, changes),
            !.currentConfig[1].updatedAt = timestamp,
            !.currentStructure = << >>,
            !.isDirty = TRUE]

\* updates.forEach of updateMultipleParticipants: st is [participants,
\* updatedAny].
RECURSIVE applyUpdates(_, _)
applyUpdates(st, updates) ==
    IF updates = << >> THEN st
    ELSE LET update == Head(updates)
         IN  applyUpdates(
                 [participants |-> updateMatching(st.participants, update.id, update.changes),
                  updatedAny   |-> st.updatedAny \/ matches(st.participants, update.id)],
                 Tail(updates))

\* A batch whose updates all look up the ids of the roster before the batch.
RECURSIVE applyUpdatesToOriginalIds(_, _, _)
applyUpdatesToOriginalIds(original, st, updates) ==
    IF updates = << >> THEN st
    ELSE LET update == Head(updates)
         IN  applyUpdatesToOriginalIds(
                 original,
                 [participants |->
                      [i \in 1..Len(original) |->
                          IF original[i].id = update.id
                          THEN mergeParticipant(st.participants[i], update.changes)
                          ELSE st.participants[i]],
                  updatedAny   |-> st.updatedAny \/ matches(original, update.id)],
                 Tail(updates))

updateMultipleParticipantsByOriginalIds(state, updates, timestamp) ==
    IF state.currentConfig = << >> \/ Len(updates) = 0 THEN state
    ELSE LET roster  == state.currentConfig[1].participants
             applied == applyUpdatesToOriginalIds(
                            roster, [participants |-> roster, updatedAny |-> FALSE], updates)
         IN  IF ~ applied.updatedAny
             THEN [state EXCEPT !.currentConfig[1].participants = applied.participants]
             ELSE [state EXCEPT
                     !.currentConfig[1].participants = applied.participants,
                     !.currentConfig[1].updatedAt = timestamp,
                     !.currentStructure = << >>,
                     !.isDirty = TRUE]

updateMultipleParticipants(state, updates, timestamp) ==
    IF state.currentConfig = << >> \/ Len(updates) = 0 THEN state
    ELSE LET applied == applyUpdates([participants |-> state.currentConfig[1].participants,
                                      updatedAny   |-> FALSE],
                                     updates)
         IN  IF ~ applied.updatedAny
             THEN [state EXCEPT !.currentConfig[1].participants = applied.participants]
             ELSE [state EXCEPT
                     !.currentConfig[1].participants = applied.participants,
                     !.currentConfig[1].updatedAt = timestamp,
                     !.currentStructure = << >>,
                     !.isDirty = TRUE]


\* The metadata of defaultFormats of registry-seed.ts, in its order; only
\* type and name matter to the registry and the store.
defaultFormats ==
    << [type |-> "single-elimination", name |-> "Single Elimination"],
       [type |-> "double-elimination", name |-> "Double Elimination"],
       [type |-> "round-robin",        name |-> "Round Robin"],
       [type |-> "swiss",              name |-> "Swiss"],
       [type |-> "ffa",                name |-> "Free-for-All"],
       [type |-> "fifa",               name |-> "FIFA Style"],
       [type |-> "racing-mk",          name |-> "Racing - Mario Kart"],
       [type |-> "racing-f1",          name |-> "Racing - F1"] >>

\* createFormat(metadata, structure): validateConfig is () => ({valid: true}).
createFormat(metadata) ==
    [type |-> metadata.type, name |-> metadata.name, valid |-> TRUE]

\* defaultFormats.forEach of ensureDefaultFormatsRegistered, from the i-th on.
RECURSIVE registerDefaultsFrom(_, _)
registerDefaultsFrom(formats, i) ==
    IF i > Len(defaultFormats) THEN formats
    ELSE IF get(formats, defaultFormats[i].type) # << >>
         THEN registerDefaultsFrom(formats, i + 1)
         ELSE registerDefaultsFrom(register(formats, createFormat(defaultFormats[i])).formats,
                                   i + 1)

ensureDefaultFormatsRegistered(formats) == registerDefaultsFrom(formats, 1)

\* format.validateConfig(cfg): a ValidationResult, errors being the codes of
\* its error entries (none in {valid: true}).  The function of a format
\* does not read its argument: it is () => ({valid: true}) in createFormat
\* and the function the test hands to createTestFormat otherwise.
validateConfig(format, cfg) ==
    IF format.valid
    THEN [valid |-> TRUE,  errors |-> << >>]
    ELSE [valid |-> FALSE, errors |-> <<"missing-participants">>]
----------------------------------------------------------------------------
(* Export, import and local storage (utils/export).

   A JavaScript value is [kind, num, str, items, fields]: kind is
   "undefined", "null", "boolean", "number", "NaN", "string", "Date", "array"
   or "object"; a Date holds its time value (a number or NaN) in items, an
   array its elements, an object its own properties in fields.  A JSON text
   is [wellFormed, value]: the value its syntax denotes, when it has one. *)

Value(kind, num, str, items, fields) ==
    [kind |-> kind, num |-> num, str |-> str, items |-> items, fields |-> fields]

Undefined == Value("undefined", 0, "", << >>, << >>)

Null == Value("null", 0, "", << >>, << >>)

Num(n) == Value("number", n, "", << >>, << >>)

NaN == Value("NaN", 0, "", << >>, << >>)

Str(s) == Value("string", 0, s, << >>, << >>)

\* new Date(time)
DateOf(time) == Value("Date", 0, "", <<time>>, << >>)

Arr(items) == Value("array", 0, "", items, << >>)

Obj(fields) == Value("object", 0, "", << >>, fields)

\* value[key]
Field(value, key) ==
    IF value.kind = "object" /\ key \in DOMAIN value.fields THEN value.fields[key]
    ELSE Undefined

\* typeof value
typeOf(value) ==
    CASE value.kind \in {"number", "NaN"} -> "number"
      [] value.kind \in {"null", "Date", "array", "object"} -> "object"
      [] OTHER -> value.kind

\* A toISOString that stops at the seconds.
toISOStringSeconds(time) == "1970-01-01T00:00:00Z"

\* Date.prototype.toISOString for the times 0..9 ms after the epoch.
toISOString(time) == "1970-01-01T00:00:00.00" \o ToString(time) \o "Z"

\* The time value of new Date(text): NaN when the text is no date.
DateParse(text) ==
    IF \E t \in 0..9 : toISOString(t) = text
    THEN Num(CHOOSE t \in 0..9 : toISOString(t) = text)
    ELSE IF text \in {"1970-01-01T00:00:00Z", "1970-01-01"} THEN Num(0)
    ELSE NaN

\* What JSON.stringify writes for a value, as the value the text denotes.
\* It writes nothing for undefined: a property that is undefined is left
\* out, an array element that is undefined is written as null.
RECURSIVE SerializeJSONValue(_)
SerializeJSONValue(value) ==
    CASE value.kind = "NaN" -> Null
      [] value.kind = "Date" ->
            IF value.items[1].kind = "NaN" THEN Null
            ELSE Str(toISOString(value.items[1].num))
      [] value.kind = "array" ->
            Arr([i \in 1..Len(value.items) |->
                    IF value.items[i].kind = "undefined" THEN Null
                    ELSE SerializeJSONValue(value.items[i])])
      [] value.kind = "object" ->
            Obj([k \in { k \in DOMAIN value.fields : value.fields[k].kind # "undefined" } |->
                    SerializeJSONValue(value.fields[k])])
      [] OTHER -> value

\* JSON.stringify(payload, null, 2)
stringify(value) == [wellFormed |-> TRUE, value |-> SerializeJSONValue(value)]

\* A text JSON.parse throws on.
malformedText == [wellFormed |-> FALSE, value |-> Undefined]

EXPORT_VERSION == "1.0.0"

LOCAL_STORAGE_KEY == "tournagen:last-tournament"

\* exportTournament(options): options is [config, structure, download] and
\* timestamp the time of new Date().  downloaded names the download function
\* the call invoked: "default" is defaultDownload, the browser download.
exportTournament(options, timestamp) ==
    IF options.config.kind \in {"null", "undefined"}
    THEN [threw |-> TRUE, message |-> "exportTournament requires a tournament config.",
          json |-> malformedText, downloaded |-> ""]
    ELSE IF options.structure.kind \in {"null", "undefined"}
    THEN [threw |-> TRUE, message |-> "exportTournament requires a generated structure.",
          json |-> malformedText, downloaded |-> ""]
    ELSE LET payload == Obj([version     |-> Str(EXPORT_VERSION),
                             format      |-> Field(options.config, "formatType"),
                             generatedAt |-> Str(toISOString(timestamp)),
                             config      |-> options.config,
                             structure   |-> options.structure])
         IN  [threw |-> FALSE, message |-> "",
              json |-> stringify(payload), downloaded |-> options.download]

isRecord(value) == value.kind = "object"

\* An isValidFormat that takes any string for a format type.
isValidFormatAnyString(value) == value.kind = "string"

isValidFormat(value) == value.kind = "string" /\ value.str \in TournamentFormatType

importError(code) ==
    [success |-> FALSE, code |-> code, format |-> "", config |-> Undefined,
     structure |-> Undefined]

schemaError == importError("invalid-schema")

\* parseDate(value): << >> for null, <<Date>> otherwise.
parseDate(value) ==
    IF typeOf(value) # "string" /\ value.kind # "Date" THEN << >>
    ELSE LET parsed == IF value.kind = "Date" THEN value ELSE DateOf(DateParse(value.str))
         IN  IF parsed.items[1].kind = "NaN" THEN << >> ELSE <<parsed>>

\* The callback of config.participants.map in normalizeConfig.
normalizeParticipant(participant) ==
    IF ~ isRecord(participant)
       \/ typeOf(Field(participant, "id")) # "string"
       \/ typeOf(Field(participant, "name")) # "string"
    THEN Null
    ELSE Obj([id          |-> Field(participant, "id"),
              name        |-> Field(participant, "name"),
              seed        |-> IF typeOf(Field(participant, "seed")) = "number"
                              THEN Field(participant, "seed") ELSE Undefined,
              team        |-> IF typeOf(Field(participant, "team")) = "string"
                              THEN Field(participant, "team") ELSE Undefined,
              nationality |-> IF typeOf(Field(participant, "nationality")) = "string"
                              THEN Field(participant, "nationality") ELSE Undefined,
              metadata    |-> IF isRecord(Field(participant, "metadata"))
                              THEN Field(participant, "metadata") ELSE Undefined])

\* normalizeConfig(config, format): << >> for null.
normalizeConfig(cfg, format) ==
    IF typeOf(Field(cfg, "id")) # "string"
       \/ typeOf(Field(cfg, "name")) # "string"
       \/ typeOf(Field(cfg, "formatType")) # "string"
       \/ Field(cfg, "participants").kind # "array"
    THEN << >>
    ELSE LET createdAt    == parseDate(Field(cfg, "createdAt"))
             updatedAt    == parseDate(Field(cfg, "updatedAt"))
             listed       == Field(cfg, "participants").items
             participants == [i \in 1..Len(listed) |-> normalizeParticipant(listed[i])]
         IN  IF createdAt = << >> \/ updatedAt = << >> THEN << >>
             ELSE IF \E i \in 1..Len(participants) : participants[i].kind = "null"
             THEN << >>
             ELSE <<Obj([cfg.fields EXCEPT !["formatType"] = Str(format),
                                              !["createdAt"] = createdAt[1],
                                              !["updatedAt"] = updatedAt[1],
                                              !["participants"] = Arr(participants)])>>

\* importTournament({ json, registry }): formats are the formats of the
\* registry.
importTournament(json, formats) ==
    IF ~ json.wellFormed THEN importError("invalid-json")
    ELSE LET parsed    == json.value
             format    == Field(parsed, "format")
             parsedConfig == Field(parsed, "config")
             structure == Field(parsed, "structure")
         IN  IF ~ isRecord(parsed) THEN schemaError
             ELSE IF ~ isValidFormat(format) THEN schemaError
             ELSE IF ~ isRecord(parsedConfig) THEN schemaError
             ELSE IF ~ isRecord(structure) THEN schemaError
             ELSE IF typeOf(Field(structure, "type")) # "string" THEN schemaError
             ELSE IF Field(parsedConfig, "formatType") # format THEN schemaError
             ELSE IF get(formats, format.str) = << >> THEN importError("unknown-format")
             ELSE LET normalizedConfig == normalizeConfig(parsedConfig, format.str)
                  IN  IF normalizedConfig = << >> THEN schemaError
                      ELSE IF ~ get(formats, format.str)[1].valid
                      THEN importError("validation-failed")
                      ELSE [success   |-> TRUE,
                            code      |-> "",
                            format    |-> format.str,
                            config    |-> normalizedConfig[1],
                            structure |-> structure]

\* A storage is the function from its keys to [json, config, structure]: the
\* text setItem stored, and the values it was made from.

\* A saveToLocalStorage that always writes under LOCAL_STORAGE_KEY.
saveToLocalStorageDefaultKey(options, storage, timestamp) ==
    IF ~ options.available
    THEN [success |-> FALSE, code |-> "unavailable", storage |-> storage, downloaded |-> ""]
    ELSE LET exported == exportTournament([options EXCEPT !.download = "none"], timestamp)
         IN  IF exported.threw \/ options.setItemThrows
             THEN [success |-> FALSE, code |-> "save-failed", storage |-> storage,
                   downloaded |-> exported.downloaded]
             ELSE [success    |-> TRUE,
                   code       |-> "",
                   storage    |-> [k \in DOMAIN storage \cup {LOCAL_STORAGE_KEY} |->
                                     IF k = LOCAL_STORAGE_KEY
                                     THEN [json |-> exported.json, config |-> options.config,
                                           structure |-> options.structure]
                                     ELSE storage[k]],
                   downloaded |-> exported.downloaded]

\* saveToLocalStorage(options): options is [config, structure, download, key,
\* available, setItemThrows]; available tells whether options.storage ??
\* getLocalStorage() is a storage, setItemThrows whether its setItem throws.
\* The download handed to exportTournament is () => undefined: "none".
saveToLocalStorage(options, storage, timestamp) ==
    IF ~ options.available
    THEN [success |-> FALSE, code |-> "unavailable", storage |-> storage, downloaded |-> ""]
    ELSE LET exported == exportTournament([options EXCEPT !.download = "none"], timestamp)
         IN  IF exported.threw \/ options.setItemThrows
             THEN [success |-> FALSE, code |-> "save-failed", storage |-> storage,
                   downloaded |-> exported.downloaded]
             ELSE [success    |-> TRUE,
                   code       |-> "",
                   storage    |-> [k \in DOMAIN storage \cup {options.key} |->
                                     IF k = options.key
                                     THEN [json |-> exported.json, config |-> options.config,
                                           structure |-> options.structure]
                                     ELSE storage[k]],
                   downloaded |-> exported.downloaded]

\* loadFromLocalStorage(options): options is [key, available, getItemThrows].
loadFromLocalStorage(options, storage, formats) ==
    IF ~ options.available THEN importError("unavailable")
    ELSE IF options.getItemThrows THEN importError("unavailable")
    ELSE IF options.key \notin DOMAIN storage THEN importError("not-found")
    ELSE importTournament(storage[options.key].json, formats)

----------------------------------------------------------------------------
(* Inputs *)

\* The participant the tests' createParticipants builds at 0-based index - 1.
createParticipant(i) == [id |-> i, seed |-> i]

createParticipants(count) == [i \in 1..count |-> createParticipant(i)]

\* Rosters with unique ids and any seed fields: absent, duplicate, or beyond
\* the bracket.
ArbitraryRosters ==
    UNION { { r \in [1..n -> [id : 1..n, seed : {NoSeed} \cup 1..MaxSeed]] :
                \A i \in 1..n : r[i].id = i } : n \in 0..MaxParticipants }

\* manualSeedOrder: the ids 1..MaxManualLen in any order and number, with
\* repetitions, and the id 0 that matches no participant.
ManualOrders == UNION { [1..n -> 0..MaxManualLen] : n \in 0..MaxManualLen }

BracketSizes(maxSize) == { s \in SingleEliminationBracketSize : s <= maxSize }

\* Seed fields and manual orders reach only the seeding code, which never
\* reads thirdPlacePlayoff (generator.ts:132-136).
ArbitraryOptions ==
    [bracketSize : BracketSizes(2 ^ MaxSizeExp), thirdPlacePlayoff : {FALSE},
     seedingMethod : {"seeded"}, manualSeedOrder : {<< >>}]
    \cup
    [bracketSize : BracketSizes(2 ^ MaxSizeExp), thirdPlacePlayoff : {FALSE},
     seedingMethod : {"manual"}, manualSeedOrder : ManualOrders]

ArbitraryConfigs ==
    UNION { [participants : {r}, options : ArbitraryOptions] : r \in ArbitraryRosters }

RosterConfigs ==
    [participants : { createParticipants(n) : n \in 0..MaxRoster },
     options      : [bracketSize : BracketSizes(2 ^ (MaxSizeExp + 1)),
                     thirdPlacePlayoff : BOOLEAN,
                     seedingMethod : {"seeded", "manual"},
                     manualSeedOrder : {<< >>}]]

ShuffleConfigs ==
    [participants : { createParticipants(n) : n \in 0..MaxShuffle },
     options      : [bracketSize : BracketSizes(2 ^ (MaxSizeExp + 1)),
                     thirdPlacePlayoff : BOOLEAN,
                     seedingMethod : {"random"},
                     manualSeedOrder : {<< >>}]]

\* Full brackets of every configurable size.
FullConfigs ==
    { [participants |-> createParticipants(s),
       options      |-> [bracketSize |-> s, thirdPlacePlayoff |-> t,
                         seedingMethod |-> "seeded", manualSeedOrder |-> << >>]] :
        s \in SingleEliminationBracketSize \ {auto}, t \in BOOLEAN }

Configs == ArbitraryConfigs \cup RosterConfigs \cup ShuffleConfigs \cup FullConfigs

\* The values a random source may return during one call: shuffleParticipants
\* draws length - 1 values, the other methods none.
DrawsFor(participants, method) ==
    IF method = "random" /\ Len(participants) > 1
    THEN [1..(Len(participants) - 1) -> 0..(RandomDenominator - 1)]
    ELSE {<< >>}

\* options.bracketSize of a direct call: undefined, or any number up to MaxSlots.
OptionalSizes == {<< >>} \cup { <<n>> : n \in 0..MaxSlots }

SeedingOptions(sizes, methods, orders, draws) ==
    [method : methods, bracketSize : sizes, manualOrder : orders, random : draws]

\* Any size, every method, on the rosters of createParticipants.
SizedCalls ==
    UNION { [participants : {createParticipants(n)},
             options      : SeedingOptions(OptionalSizes, {"seeded", "manual"},
                                           {<< >>}, {<< >>})] :
            n \in 0..MaxRoster }

ShuffleCalls ==
    UNION { [participants : {createParticipants(n)},
             options      : SeedingOptions(OptionalSizes, {"random"}, {<< >>},
                                DrawsFor(createParticipants(n), "random"))] :
            n \in 0..MaxShuffle }

\* Any seed fields and manual orders, with the bracket size left to the
\* roster or set to 2 ^ MaxSizeExp.
ArbitraryCalls ==
    UNION { [participants : {r},
             options      : SeedingOptions({<< >>, <<2 ^ MaxSizeExp>>}, {"seeded"},
                                           {<< >>}, {<< >>})
                            \cup SeedingOptions({<< >>, <<2 ^ MaxSizeExp>>}, {"manual"},
                                                ManualOrders, {<< >>})] :
            r \in ArbitraryRosters }

\* Full brackets of every configurable size.
FullCalls ==
    { [participants |-> createParticipants(s),
       options      |-> [method |-> "seeded", bracketSize |-> <<s>>,
                         manualOrder |-> << >>, random |-> << >>]] :
        s \in SingleEliminationBracketSize \ {auto} }

SeedingCalls == SizedCalls \cup ShuffleCalls \cup ArbitraryCalls \cup FullCalls

----------------------------------------------------------------------------
(* State machines of the registry and of the store *)

\* The format types the explored calls register, and the ones they ask for.
RegisteredFormatTypes == {"single-elimination", "round-robin"}

RequestedFormatTypes == RegisteredFormatTypes \cup {"swiss"}

\* Formats of the same type are told apart by their name.
createNamedFormat(formatType, variant) ==
    [type |-> formatType, name |-> formatType \o " " \o ToString(variant), valid |-> TRUE]

RegistryFormats ==
    { createNamedFormat(t, v) : t \in TournamentFormatType, v \in 1..MaxVariants }

\* The rosters of the store tests.
StoreRosters ==
    { << >>,
      << [id |-> "p1", name |-> "Alpha", seed |-> NoSeed] >>,
      << [id |-> "p1", name |-> "Alpha", seed |-> NoSeed],
         [id |-> "p2", name |-> "Bravo", seed |-> 1] >> }

\* The participants argument of setCurrentFormat: omitted, or a roster.
RosterArguments == {<< >>} \cup { <<r>> : r \in StoreRosters }

NoChanges == [id |-> << >>, name |-> << >>, seed |-> << >>]

\* Partial<Participant> values: a new name and seed, and a new id that
\* another participant may already have.
ParticipantChanges ==
    { [NoChanges EXCEPT !.name = <<"Updated">>, !.seed = <<2>>],
      [NoChanges EXCEPT !.id = <<"p2">>] }

\* The ids updates ask for; "p3" is in no roster.
UpdateIds == {"p1", "p2", "p3"}

\* The entries of a batch: either change for "p1", which may turn it into a
\* second "p2", and the first change for the other ids.
UpdateEntries ==
    { u \in [id : UpdateIds, changes : ParticipantChanges] :
        u.id = "p1" \/ u.changes.id = << >> }

UpdateLists == UNION { [1..n -> UpdateEntries] : n \in 0..MaxUpdates }

\* A call of the store: result is what it returned, "" for a call that
\* returns nothing and "null" for null.
noCall == [op |-> "", threw |-> FALSE, message |-> "", result |-> ""]

returned(op) == [op |-> op, threw |-> FALSE, message |-> "", result |-> ""]

----------------------------------------------------------------------------
(* Inputs of export, import and local storage *)

\* The formats the import tests register: one whose validateConfig accepts
\* every config and one whose validateConfig rejects every config.  No
\* explored call registers "double-elimination".
ImportFormats ==
    { [createTestFormat("single-elimination") EXCEPT !.valid = TRUE],
      [createTestFormat("round-robin") EXCEPT !.valid = FALSE] }

ExportFormatTypes == {"single-elimination", "round-robin", "double-elimination"}

\* An object literal: the properties that are given.
Literal(fields) ==
    Obj([k \in { k \in DOMAIN fields : fields[k].kind # "undefined" } |-> fields[k]])

\* The dates of a config as time values: created and updated at the same
\* time 0..MaxTime, or created at 0 with an Invalid Date, whose time value is
\* NaN, for updatedAt.
ExportDates == { <<Num(t), Num(t)>> : t \in 0..MaxTime } \cup { <<Num(0), NaN>> }

ExportParticipant(id, seed, team) ==
    Obj([id |-> Str(id), name |-> Str("Player " \o id), seed |-> seed, team |-> team])

ExportRosters ==
    { << >>,
      << ExportParticipant("p1", NaN, Undefined) >>,
      << Literal([id |-> Str("p1"), name |-> Str("Player p1")]),
         ExportParticipant("p2", Num(2), Str("Red")) >> }

ExportConfig(formatType, participants, createdAt, updatedAt) ==
    Obj([id           |-> Str("tournament-1"),
         name         |-> Str("Summer Open"),
         formatType   |-> Str(formatType),
         participants |-> Arr(participants),
         createdAt    |-> DateOf(createdAt),
         updatedAt    |-> DateOf(updatedAt)])

ExportConfigs ==
    { ExportConfig(formatType, participants, dates[1], dates[2]) :
        formatType \in ExportFormatTypes, participants \in ExportRosters,
        dates \in ExportDates }

ExportMatch(participant1, winner) ==
    Obj([id |-> Str("r1-m1"), roundId |-> Str("r1"), position |-> Num(0),
         participant1 |-> participant1, participant2 |-> Null, winner |-> winner])

ExportRound(roundNumber, roundMatches) ==
    Obj([id |-> Str("r1"), name |-> Str("Final"), roundNumber |-> roundNumber,
         matches |-> Arr(roundMatches)])

ExportBracket(rounds) == Obj([type |-> Str("bracket"), rounds |-> Arr(rounds)])

\* Generated structures, and null for a store that has none.
ExportStructures ==
    { ExportBracket(<< >>),
      ExportBracket(<< ExportRound(Num(1),
                         << ExportMatch(ExportParticipant("p1", Num(1), Undefined),
                                        Undefined) >>) >>),
      ExportBracket(<< ExportRound(NaN, << >>) >>),
      Null }

\* "default" is defaultDownload, "custom" a download the caller passes.
DownloadOptions == {"default", "custom"}

StorageKeys == {LOCAL_STORAGE_KEY, "slot-1"}

\* Texts handed to importTournament.  A config of the texts is no record, or
\* differs in at most one property from a config that normalizeConfig takes.
ImportedConfig(id, formatType, participants, createdAt) ==
    Literal([id |-> id, name |-> Str("Summer Open"), formatType |-> formatType,
             participants |-> participants, createdAt |-> createdAt,
             updatedAt |-> Str(toISOString(0))])

ImportedParticipants ==
    { Undefined,
      Obj(<< >>),
      Arr(<< >>),
      Arr(<< Literal([id |-> Str("p1"), name |-> Str("Player p1"), seed |-> Str("1")]) >>),
      Arr(<< Literal([id |-> Str("p1"), name |-> Str("Player p1")]), Str("p2") >>),
      Arr(<< Literal([id |-> Num(1), name |-> Str("Player p1")]) >>) }

ImportedDates == {Undefined, Num(0), Str("soon"), Str(toISOString(0))}

ImportedConfigs(formatType) ==
    {Undefined, Arr(<< >>)} \cup
    { ImportedConfig(Str("tournament-1"), other, Arr(<< >>), Str(toISOString(0))) :
        other \in {Undefined, Str("swiss")} } \cup
    { ImportedConfig(Undefined, Str(formatType), Arr(<< >>), Str(toISOString(0))) } \cup
    { ImportedConfig(Str("tournament-1"), Str(formatType), participants, Str(toISOString(0))) :
        participants \in ImportedParticipants } \cup
    { ImportedConfig(Str("tournament-1"), Str(formatType), Arr(<< >>), createdAt) :
        createdAt \in ImportedDates }

ImportedStructures ==
    { Undefined, Literal([type |-> Num(1)]),
      Literal([type |-> Str("bracket"), rounds |-> Arr(<< >>)]) }

ImportedPayload(format, imported, structure) ==
    Literal([version |-> Str(EXPORT_VERSION), format |-> format,
             config |-> imported, structure |-> structure])

\* Texts that are no JSON or no object, texts whose format is no format type,
\* and the texts of every format type, config and structure above.
ImportTexts ==
    { malformedText, stringify(Null), stringify(Arr(<< >>)), stringify(Str("text")) } \cup
    { stringify(ImportedPayload(format,
                  ImportedConfig(Str("tournament-1"), format, Arr(<< >>), Str(toISOString(0))),
                  Literal([type |-> Str("bracket"), rounds |-> Arr(<< >>)]))) :
        format \in {Undefined, Num(1), Str("bogus")} } \cup
    UNION { { stringify(ImportedPayload(Str(formatType), imported, structure)) :
                imported \in ImportedConfigs(formatType), structure \in ImportedStructures } :
            formatType \in ExportFormatTypes }

\* A call of the export module: its arguments and its result.  storage tells
\* what options.storage ?? getLocalStorage() gave a save or a load: "none", a
\* storage that "works", or one whose setItem or getItem "throws".
noExportCall ==
    [op |-> "", key |-> "", storage |-> "", config |-> Undefined, structure |-> Undefined,
     json |-> malformedText, result |-> importError("")]

storageGiven(available, throws) ==
    IF ~ available THEN "none" ELSE IF throws THEN "throws" ELSE "works"

\* The result of a call that returns no import result.
callResult(success, code) == [importError(code) EXCEPT !.success = success]

----------------------------------------------------------------------------
(* State machine: the generator is called, then called again with the same
   configuration. *)

defaultSingleEliminationOptions ==
    [bracketSize |-> auto, thirdPlacePlayoff |-> FALSE,
     seedingMethod |-> "seeded", manualSeedOrder |-> << >>]

\* Before any call: the default configuration of an empty roster, and no
\* seeding arguments.
Init ==
    /\ config = [participants |-> << >>, options |-> defaultSingleEliminationOptions]
    /\ bracket = << >>
    /\ previous = << >>
    /\ seedingCall = [participants |-> << >>,
                      options |-> [method |-> "seeded", bracketSize |-> << >>,
                                   manualOrder |-> << >>, random |-> << >>]]
    /\ seedingSlots = << >>
    /\ previousSlots = << >>
    /\ registry = << >>
    /\ registryCall = [op |-> "", argument |-> "", format |-> << >>,
                       threw |-> FALSE, message |-> ""]
    /\ tournamentState = initialState
    /\ now = 0
    /\ storeCall = noCall
    /\ localStorage = << >>
    /\ exportCall = noExportCall
    /\ downloaded = FALSE

\* generateSingleEliminationBracket(cfg) for a configuration of the caller.
Generate ==
    /\ bracket = << >>
    /\ \E cfg \in Configs :
         \E draws \in DrawsFor(cfg.participants, cfg.options.seedingMethod) :
           /\ config' = cfg
           /\ bracket' = <<generateSingleEliminationBracket(cfg, draws)>>
    /\ UNCHANGED <<previous, seedingVars, storeVars, exportVars>>

\* A second call with the identical config; the first result is kept.
Regenerate ==
    /\ bracket # << >>
    /\ previous = << >>
    /\ previous' = bracket
    /\ \E draws \in DrawsFor(config.participants, config.options.seedingMethod) :
           bracket' = <<generateSingleEliminationBracket(config, draws)>>
    /\ UNCHANGED <<config, seedingVars, storeVars, exportVars>>

Next == Generate \/ Regenerate

Spec == Init /\ [][Next]_vars

\* applySeedingMethod(participants, options) called directly.
Seed ==
    /\ seedingSlots = << >>
    /\ \E call \in SeedingCalls :
           /\ seedingCall' = call
           /\ seedingSlots' = applySeedingMethod(call.participants, call.options)
    /\ UNCHANGED <<previousSlots, generatorVars, storeVars, exportVars>>

\* The same call again: same participants, same options, and a random source
\* that returns the same values.
Reseed ==
    /\ seedingSlots # << >>
    /\ previousSlots = << >>
    /\ previousSlots' = seedingSlots
    /\ seedingSlots' = applySeedingMethod(seedingCall.participants, seedingCall.options)
    /\ UNCHANGED <<seedingCall, generatorVars, storeVars, exportVars>>

NextSeeding == Seed \/ Reseed

SpecSeeding == Init /\ [][NextSeeding]_vars

----------------------------------------------------------------------------
(* The registry on its own: formats are registered one after the other. *)

\* registry.register(format); the explored registries stop growing at
\* MaxRegistered formats.
Register(format) ==
    /\ Len(registry) < MaxRegistered \/ has(registry, format.type)
    /\ LET result == register(registry, format)
       IN  /\ registry' = result.formats
           /\ registryCall' = [op |-> "register", argument |-> format.type,
                               format |-> <<format>>,
                               threw |-> result.threw, message |-> result.message]
    /\ UNCHANGED <<tournamentState, now, storeCall, generatorVars, seedingVars, exportVars>>

NextRegistry == \E format \in RegistryFormats : Register(format)

SpecRegistry == Init /\ [][NextRegistry]_vars

----------------------------------------------------------------------------
(* The store: every exported operation of store.ts, called in any order. *)

\* ensureFormatRegistered(formatType) of the store tests.
EnsureFormatRegistered(formatType) ==
    /\ ~ has(registry, formatType)
    /\ registry' = register(registry, createTestFormat(formatType)).formats
    /\ UNCHANGED <<registryCall, tournamentState, now, storeCall, generatorVars, seedingVars, exportVars>>

\* Time passes between two calls of new Date().
Tick ==
    /\ now < MaxClock
    /\ now' = now + 1
    /\ UNCHANGED <<registry, registryCall, tournamentState, storeCall,
                   generatorVars, seedingVars, exportVars>>

SetCurrentFormat(formatType, participants) ==
    /\ LET result == setCurrentFormat(tournamentState, registry, formatType, participants, now)
       IN  /\ tournamentState' = result.state
           /\ storeCall' = [op |-> "setCurrentFormat",
                            threw |-> result.threw, message |-> result.message,
                            result |-> ""]
    /\ UNCHANGED <<registry, registryCall, now, generatorVars, seedingVars, exportVars>>

SetCurrentStep(step) ==
    /\ tournamentState' = setCurrentStep(tournamentState, step)
    /\ storeCall' = returned("setCurrentStep")
    /\ UNCHANGED <<registry, registryCall, now, generatorVars, seedingVars, exportVars>>

GoToPreviousStep ==
    /\ LET call == goToPreviousStep(tournamentState)
       IN  /\ tournamentState' = call.state
           /\ storeCall' = [returned("goToPreviousStep") EXCEPT !.result = call.result]
    /\ UNCHANGED <<registry, registryCall, now, generatorVars, seedingVars, exportVars>>

GoToNextStep ==
    /\ LET call == goToNextStep(tournamentState)
       IN  /\ tournamentState' = call.state
           /\ storeCall' = [returned("goToNextStep") EXCEPT !.result = call.result]
    /\ UNCHANGED <<registry, registryCall, now, generatorVars, seedingVars, exportVars>>

\* setTournamentState("currentStructure", structure) with the structure the
\* current format generates.
SetCurrentStructure ==
    /\ tournamentState.currentConfig # << >>
    /\ tournamentState' = [tournamentState EXCEPT !.currentStructure = <<createDefaultStructure>>]
    /\ storeCall' = returned("setTournamentState")
    /\ UNCHANGED <<registry, registryCall, now, generatorVars, seedingVars, exportVars>>

UpdateParticipant(participantId, changes) ==
    /\ tournamentState' = updateParticipant(tournamentState, participantId, changes, now)
    /\ storeCall' = returned("updateParticipant")
    /\ UNCHANGED <<registry, registryCall, now, generatorVars, seedingVars, exportVars>>

UpdateMultipleParticipants(updates) ==
    /\ tournamentState' = updateMultipleParticipants(tournamentState, updates, now)
    /\ storeCall' = returned("updateMultipleParticipants")
    /\ UNCHANGED <<registry, registryCall, now, generatorVars, seedingVars, exportVars>>

NextStore ==
    \/ \E formatType \in RegisteredFormatTypes : EnsureFormatRegistered(formatType)
    \/ Tick
    \/ \E formatType \in RequestedFormatTypes, participants \in RosterArguments :
           SetCurrentFormat(formatType, participants)
    \/ \E step \in BuilderStep : SetCurrentStep(step)
    \/ GoToPreviousStep
    \/ GoToNextStep
    \/ SetCurrentStructure
    \/ \E participantId \in UpdateIds, changes \in ParticipantChanges :
           UpdateParticipant(participantId, changes)
    \/ \E updates \in UpdateLists : UpdateMultipleParticipants(updates)

SpecStore == Init /\ [][NextStore]_vars

\* The builder: the operations of store.ts and navigation.ts that the builder
\* calls, in any order; none of them sets currentStructure to a structure.
NextBuilder ==
    \/ \E formatType \in RegisteredFormatTypes : EnsureFormatRegistered(formatType)
    \/ Tick
    \/ \E formatType \in RequestedFormatTypes, participants \in RosterArguments :
           SetCurrentFormat(formatType, participants)
    \/ \E step \in BuilderStep : SetCurrentStep(step)
    \/ GoToPreviousStep
    \/ GoToNextStep
    \/ \E participantId \in UpdateIds, changes \in ParticipantChanges :
           UpdateParticipant(participantId, changes)
    \/ \E updates \in UpdateLists : UpdateMultipleParticipants(updates)

SpecBuilder == Init /\ [][NextBuilder]_vars


----------------------------------------------------------------------------
(* Validation: the default formats are registered, the store is given a
   format and a roster, and the format of the store's config validates it. *)

\* ensureDefaultFormatsRegistered()
EnsureDefaultFormatsRegistered ==
    /\ registry' = ensureDefaultFormatsRegistered(registry)
    /\ UNCHANGED <<registryCall, tournamentState, now, storeCall, generatorVars, seedingVars, exportVars>>

\* tournamentFormatRegistry.get(cfg.formatType).validateConfig(cfg) for the
\* config of the store.
ValidateConfig ==
    /\ tournamentState.currentConfig # << >>
    /\ get(registry, tournamentState.currentConfig[1].formatType) # << >>
    /\ LET cfg    == tournamentState.currentConfig[1]
           format == get(registry, cfg.formatType)[1]
       IN  storeCall' = [op |-> "validateConfig", threw |-> FALSE, message |-> "",
                         result |-> "", format |-> format, config |-> cfg,
                         validation |-> validateConfig(format, cfg)]
    /\ UNCHANGED <<registry, registryCall, tournamentState, now, generatorVars, seedingVars, exportVars>>

NextValidation ==
    \/ EnsureDefaultFormatsRegistered
    \/ Tick
    \/ \E formatType \in TournamentFormatType, participants \in RosterArguments :
           SetCurrentFormat(formatType, participants)
    \/ ValidateConfig

SpecValidation == Init /\ [][NextValidation]_vars
----------------------------------------------------------------------------
(* Export and import: tournaments are exported, and texts imported, in any
   order, against the formats registered so far. *)

\* ensureFormatRegistered(formatType, validateConfig) of the import tests.
EnsureImportFormatRegistered(format) ==
    /\ ~ has(registry, format.type)
    /\ registry' = register(registry, format).formats
    /\ UNCHANGED <<registryCall, tournamentState, now, storeCall, generatorVars,
                   seedingVars, exportVars>>

\* exportTournament({ config, structure, download }).
ExportTournament(exportedConfig, structure, download) ==
    /\ LET result == exportTournament([config |-> exportedConfig, structure |-> structure,
                                       download |-> download], now)
       IN  /\ exportCall' = [noExportCall EXCEPT !.op = "exportTournament",
                                                  !.config = exportedConfig,
                                                  !.structure = structure,
                                                  !.json = result.json,
                                                  !.result = callResult(~ result.threw, "")]
           /\ downloaded' = (downloaded \/ result.downloaded = "default")
    /\ UNCHANGED <<localStorage, storeVars, generatorVars, seedingVars>>

\* importTournament({ json }) of any text.
ImportTournament(json) ==
    /\ exportCall' = [noExportCall EXCEPT !.op = "importTournament",
                                           !.json = json,
                                           !.result = importTournament(json, registry)]
    /\ UNCHANGED <<localStorage, downloaded, storeVars, generatorVars, seedingVars>>

\* importTournament({ json: exported.json }) of the text the last export made.
ImportExported ==
    /\ exportCall.op = "exportTournament"
    /\ exportCall.result.success
    /\ exportCall' = [exportCall EXCEPT !.op = "importExported",
                                        !.result = importTournament(exportCall.json, registry)]
    /\ UNCHANGED <<localStorage, downloaded, storeVars, generatorVars, seedingVars>>

NextExport ==
    \/ \E format \in ImportFormats : EnsureImportFormatRegistered(format)
    \/ \E exportedConfig \in ExportConfigs, structure \in ExportStructures,
          download \in DownloadOptions :
           ExportTournament(exportedConfig, structure, download)
    \/ \E json \in ImportTexts : ImportTournament(json)
    \/ ImportExported

SpecExport == Init /\ [][NextExport]_vars

----------------------------------------------------------------------------
(* Local storage: a tournament is saved into an empty storage and loaded
   back, against the formats registered so far. *)

\* saveToLocalStorage({ config, structure, key, storage }).
SaveToLocalStorage(savedConfig, structure, key, available, setItemThrows) ==
    /\ DOMAIN localStorage = {}
    /\ LET result == saveToLocalStorage([config |-> savedConfig, structure |-> structure,
                                         download |-> "default", key |-> key,
                                         available |-> available,
                                         setItemThrows |-> setItemThrows], localStorage, now)
       IN  /\ localStorage' = result.storage
           /\ exportCall' = [noExportCall EXCEPT !.op = "saveToLocalStorage",
                                                  !.key = key,
                                                  !.storage = storageGiven(available, setItemThrows),
                                                  !.result = callResult(result.success, result.code)]
           /\ downloaded' = (downloaded \/ result.downloaded = "default")
    /\ UNCHANGED <<storeVars, generatorVars, seedingVars>>

\* loadFromLocalStorage({ key, storage }).
LoadFromLocalStorage(key, available, getItemThrows) ==
    /\ exportCall' = [noExportCall EXCEPT
                        !.op = "loadFromLocalStorage",
                        !.key = key,
                        !.storage = storageGiven(available, getItemThrows),
                        !.json = IF available /\ ~ getItemThrows /\ key \in DOMAIN localStorage
                                 THEN localStorage[key].json ELSE malformedText,
                        !.result = loadFromLocalStorage([key |-> key, available |-> available,
                                                         getItemThrows |-> getItemThrows],
                                                        localStorage, registry)]
    /\ UNCHANGED <<localStorage, downloaded, storeVars, generatorVars, seedingVars>>

NextStorage ==
    \/ \E format \in ImportFormats : EnsureImportFormatRegistered(format)
    \/ \E savedConfig \in ExportConfigs, structure \in ExportStructures,
          key \in StorageKeys, available \in BOOLEAN, setItemThrows \in BOOLEAN :
           SaveToLocalStorage(savedConfig, structure, key, available, setItemThrows)
    \/ \E key \in StorageKeys, available \in BOOLEAN, getItemThrows \in BOOLEAN :
           LoadFromLocalStorage(key, available, getItemThrows)

SpecStorage == Init /\ [][NextStorage]_vars

----------------------------------------------------------------------------
(* Properties of the generator, checked under Spec *)

Generated == bracket # << >>

\* The structure the last call returned (when Generated).
Returned == bracket[1]

ParticipantCount == Len(config.participants)

FirstRoundMatches == Returned.rounds[1].matches

RECURSIVE IsPowerOfTwo(_)
IsPowerOfTwo(n) == n = 1 \/ (n > 1 /\ n % 2 = 0 /\ IsPowerOfTwo(n \div 2))

\* The smallest power of two >= n.
LeastPowerOfTwoAtLeast(n) ==
    CHOOSE p \in 1..Max({1, 2 * n}) :
        IsPowerOfTwo(p) /\ p >= n /\ (p = 1 \/ p \div 2 < n)

\* The slot count of section 4.2: max(2, power of two >= configured size,
\* power of two >= participant count).
ExpectedTotalSlots ==
    Max({2, LeastPowerOfTwoAtLeast(ParticipantCount)}
        \cup (IF config.options.bracketSize = auto THEN {}
              ELSE {LeastPowerOfTwoAtLeast(config.options.bracketSize)}))

\* rounds = ceil(log2(n)) for n >= 2, without computing a logarithm.
IsCeilLog2(rounds, n) == rounds >= 1 /\ 2 ^ (rounds - 1) < n /\ n <= 2 ^ rounds

RoundSizesHalve ==
    \A r \in 1..Len(Returned.rounds) :
        Len(Returned.rounds[r].matches) * (2 ^ r) = ExpectedTotalSlots

Occupants(match) == {match.participant1, match.participant2} \ {null}

ByeMatches == { m \in 1..Len(FirstRoundMatches) : FirstRoundMatches[m].isBye = "true" }

\* C2 as claimed, for a bracket of the smallest sufficient size (where
\* totalSlots - N byes can exist at all): when N >= 2 is not a power of two,
\* the first round has exactly totalSlots - N bye matches, each with the one
\* participant occupying it as its winner.
C2_ByeCount ==
    ( /\ Generated
      /\ ParticipantCount >= 2
      /\ ~ IsPowerOfTwo(ParticipantCount)
      /\ ExpectedTotalSlots = LeastPowerOfTwoAtLeast(ParticipantCount) ) =>
        /\ Cardinality(ByeMatches) = ExpectedTotalSlots - ParticipantCount
        /\ \A m \in ByeMatches :
              /\ FirstRoundMatches[m].winner # null
              /\ Occupants(FirstRoundMatches[m]) = {FirstRoundMatches[m].winner}

\* C3: every match of a non-final round feeds into an existing match of the
\* next round, every match of a following round is fed by exactly the sibling
\* pair at 0-based indices 2k and 2k+1 of the round before, and the final
\* match feeds into nothing.
C3_FeedsIntoLinks ==
    Generated =>
        LET rounds == Returned.rounds
            last   == Len(rounds)
        IN  /\ \A r \in 1..(last - 1) : \A m \in 1..Len(rounds[r].matches) :
                  \E t \in 1..Len(rounds[r + 1].matches) :
                      rounds[r + 1].matches[t].id = rounds[r].matches[m].feedsInto
            /\ \A r \in 2..last : \A t \in 1..Len(rounds[r].matches) :
                  { m \in 1..Len(rounds[r - 1].matches) :
                      rounds[r - 1].matches[m].feedsInto = rounds[r].matches[t].id }
                  = {2 * t - 1, 2 * t}
            /\ last >= 1 =>
                  /\ Len(rounds[last].matches) = 1
                  /\ rounds[last].matches[1].feedsInto = undefinedId

\* A bracket of three rounds: two levels of links and a final.
C3_Witness ==
    /\ Generated
    /\ Len(Returned.rounds) = 3
    /\ Returned.rounds[1].matches[4].feedsInto = Returned.rounds[2].matches[2].id
    /\ Returned.rounds[2].matches[2].feedsInto = Returned.rounds[3].matches[1].id

\* The participants carry the seeds 1..N, each once.
SeedsAreOneToN(participants) ==
    /\ \A i \in 1..Len(participants) : participants[i].seed \in 1..Len(participants)
    /\ \A i, j \in 1..Len(participants) :
          participants[i].seed = participants[j].seed => i = j

\* C5: with method "seeded", bracketSize "auto" and distinct seeds 1..N, N not
\* a power of two, the winners of the first-round bye matches are exactly the
\* participants with seeds 1..(totalSlots - N).
C5_TopSeedsGetByes ==
    ( /\ Generated
      /\ config.options.seedingMethod = "seeded"
      /\ config.options.bracketSize = auto
      /\ ParticipantCount >= 2
      /\ ~ IsPowerOfTwo(ParticipantCount)
      /\ SeedsAreOneToN(config.participants) ) =>
        { FirstRoundMatches[m].winner : m \in ByeMatches }
        = { config.participants[i] : i \in { j \in 1..ParticipantCount :
              config.participants[j].seed <= ExpectedTotalSlots - ParticipantCount } }

\* Six seeded participants: seeds 1 and 2 receive the two byes.
C5_Witness ==
    /\ Generated
    /\ config.options.seedingMethod = "seeded"
    /\ config.options.bracketSize = auto
    /\ ParticipantCount = 6
    /\ SeedsAreOneToN(config.participants)
    /\ { FirstRoundMatches[m].winner.seed : m \in ByeMatches } = {1, 2}

\* The first-round slots (match, side) a participant occupies.
SlotsOf(participant) ==
    { <<m, 1>> : m \in { k \in 1..Len(FirstRoundMatches) :
                           FirstRoundMatches[k].participant1.id = participant.id } }
    \cup
    { <<m, 2>> : m \in { k \in 1..Len(FirstRoundMatches) :
                           FirstRoundMatches[k].participant2.id = participant.id } }

\* C6: for N >= 2 participants with unique ids, whatever the bracketSize, the
\* seeding method, the manual order and the seed fields, every participant
\* occupies exactly one slot of the first round.
C6_NobodyTruncated ==
    (Generated /\ ParticipantCount >= 2) =>
        \A i \in 1..ParticipantCount :
            Cardinality(SlotsOf(config.participants[i])) = 1

\* A configured size of 2 for three participants, two of them with the same
\* seed: all three are in the first round.
C6_Witness ==
    /\ Generated
    /\ ParticipantCount = 3
    /\ config.options.bracketSize = 2
    /\ config.participants[1].seed = config.participants[2].seed
    /\ \A i \in 1..3 : Cardinality(SlotsOf(config.participants[i])) = 1

\* C7: with 0 or 1 participants the generator returns no rounds and no
\* third-place match, whatever the options.
C7_EmptyBelowTwo ==
    (Generated /\ ParticipantCount <= 1) =>
        /\ Returned.rounds = << >>
        /\ Returned.thirdPlaceMatch = << >>

\* One participant, an 8-slot bracket and a third-place playoff asked for.
C7_Witness ==
    /\ Generated
    /\ ParticipantCount = 1
    /\ config.options.thirdPlacePlayoff
    /\ config.options.bracketSize = 8
    /\ Returned.rounds = << >>

C9_SameConfigSameBracket ==
    previous # << >> => previous = bracket

----------------------------------------------------------------------------
(* Properties of applySeedingMethod, checked under SpecSeeding *)

Seeded == seedingSlots # << >>

SeedingCount == Len(seedingCall.participants)

\* C4: in a power-of-two bracket of size S (2..128) filled by S participants
\* with distinct seeds 1..S, method "seeded" puts seeds that sum to S + 1 in
\* every adjacent slot pair (so seed 1 meets seed S and seed 2 meets seed
\* S - 1), and a second application returns the same slot array.
C4_SeededPairs ==
    ( /\ Seeded
      /\ seedingCall.options.method = "seeded"
      /\ SeedingCount >= 2
      /\ IsPowerOfTwo(SeedingCount)
      /\ Len(seedingSlots) = SeedingCount
      /\ SeedsAreOneToN(seedingCall.participants) ) =>
        /\ \A k \in 1..(SeedingCount \div 2) :
              /\ seedingSlots[2 * k - 1] # null
              /\ seedingSlots[2 * k] # null
              /\ seedingSlots[2 * k - 1].seed + seedingSlots[2 * k].seed = SeedingCount + 1
        /\ \E k \in 1..(SeedingCount \div 2) :
              {seedingSlots[2 * k - 1].seed, seedingSlots[2 * k].seed} = {1, SeedingCount}
        /\ previousSlots # << >> => previousSlots = seedingSlots

\* The full bracket of 128, applied twice.
C4_Witness ==
    /\ Seeded
    /\ previousSlots # << >>
    /\ seedingCall.options.method = "seeded"
    /\ SeedingCount = 128
    /\ Len(seedingSlots) = 128
    /\ SeedsAreOneToN(seedingCall.participants)
    /\ seedingSlots[1].seed = 1
    /\ seedingSlots[2].seed = 128

\* C10: the array applySeedingMethod returns has the smallest power-of-two
\* length >= max(configured size, participant count) that is at least 2, the
\* configured size being the participant count when undefined; with zero
\* participants every entry is null.
C10_SlotArrayLength ==
    Seeded =>
        LET configured == IF seedingCall.options.bracketSize = << >> THEN SeedingCount
                          ELSE seedingCall.options.bracketSize[1]
            needed     == Max({configured, SeedingCount})
            length     == Len(seedingSlots)
        IN  /\ IsPowerOfTwo(length)
            /\ length >= 2
            /\ length >= needed
            /\ length > 2 => length \div 2 < needed
            /\ SeedingCount = 0 => \A k \in 1..length : seedingSlots[k] = null

\* A size that is no power of two, and an empty roster with a size.
C10_Witness ==
    /\ Seeded
    /\ seedingCall.options.bracketSize = <<5>>
    /\ SeedingCount = 0
    /\ Len(seedingSlots) = 8

\* The seed the roster gives a participant: its seed field or, without one,
\* its 1-based position in the participant list.
ListedSeed(participants, participant) ==
    IF participant.seed # NoSeed THEN participant.seed
    ELSE CHOOSE i \in 1..Len(participants) : participants[i] = participant

\* The positions of manualOrder that name a participant for the first time.
NamingPositions(participants, manualOrder) ==
    { k \in 1..Len(manualOrder) :
        /\ \E i \in 1..Len(participants) : participants[i].id = manualOrder[k]
        /\ \A j \in 1..(k - 1) : manualOrder[j] # manualOrder[k] }

\* C11: with method "manual" the slots 0, 1, 2, ... hold the participants
\* manualOrder names, in its order, without the ids that match nobody or were
\* already used; the following slots hold all the other participants in
\* ascending order of derived seed (the seed field or, without one, the
\* 1-based position in the participant list); every later slot is null.
C11_ManualPlacement ==
    (Seeded /\ seedingCall.options.method = "manual") =>
        LET participants == seedingCall.participants
            manualOrder  == seedingCall.options.manualOrder
            naming       == NamingPositions(participants, manualOrder)
            named        == Cardinality(naming)
        IN  /\ \A k \in naming :
                  seedingSlots[Cardinality({ j \in naming : j <= k })].id = manualOrder[k]
            /\ \A k \in 1..SeedingCount :
                  \E i \in 1..SeedingCount : seedingSlots[k] = participants[i]
            /\ \A a, b \in 1..SeedingCount : a # b => seedingSlots[a] # seedingSlots[b]
            /\ \A a, b \in (named + 1)..SeedingCount :
                  a < b => ListedSeed(participants, seedingSlots[a])
                               <= ListedSeed(participants, seedingSlots[b])
            /\ \A k \in (SeedingCount + 1)..Len(seedingSlots) : seedingSlots[k] = null

\* The swaps of a shuffle undone: positions 1, 2, ..., count - 1 (0-based)
\* swapped back with the positions the draws chose, last draw first.
RECURSIVE Unshuffle(_, _, _)
Unshuffle(result, draws, i) ==
    IF i >= Len(result) THEN result
    ELSE LET j == (draws[Len(result) - i] * (i + 1)) \div RandomDenominator
         IN  Unshuffle([result EXCEPT ![i + 1] = result[j + 1], ![j + 1] = result[i + 1]],
                       draws, i + 1)

\* C12: with method "random" and a random source returning values in [0, 1),
\* slots 0..count-1 hold a permutation of the participants and the other slots
\* are null; the permutation is that of the Fisher-Yates shuffle walking i
\* from count - 1 down to 1 and swapping position i with
\* floor(random() * (i + 1)), so the same random values give the same array.
C12_RandomPlacement ==
    (Seeded /\ seedingCall.options.method = "random") =>
        LET participants == seedingCall.participants
            draws        == seedingCall.options.random
            placed       == SubSeq(seedingSlots, 1, SeedingCount)
        IN  /\ \A i \in 1..SeedingCount :
                  Cardinality({ k \in 1..Len(seedingSlots) :
                                  seedingSlots[k] = participants[i] }) = 1
            /\ \A k \in 1..SeedingCount : seedingSlots[k] # null
            /\ \A k \in (SeedingCount + 1)..Len(seedingSlots) : seedingSlots[k] = null
            /\ SeedingCount >= 2 =>
                  seedingSlots[SeedingCount] =
                      participants[((draws[1] * SeedingCount) \div RandomDenominator) + 1]
            /\ Unshuffle(placed, draws, 1) = participants
            /\ previousSlots # << >> => previousSlots = seedingSlots

\* Three participants, the first draw picking position 0 and the second
\* position 0 again: [p1, p2, p3] becomes [p2, p3, p1], twice.
C12_Witness ==
    /\ Seeded
    /\ previousSlots # << >>
    /\ seedingCall.options.method = "random"
    /\ SeedingCount = 3
    /\ seedingSlots[1].id = 2
    /\ seedingSlots[2].id = 3
    /\ seedingSlots[3].id = 1

----------------------------------------------------------------------------
(* Properties of the store, checked under SpecStore *)

\* text holds part as a substring.
Contains(text, part) ==
    \E i \in 1..(Len(text) - Len(part) + 1) : SubSeq(text, i, i + Len(part) - 1) = part

Roster == currentParticipants(tournamentState)

\* C16: setCurrentFormat called with a format type that is not registered
\* throws an error whose message names that type, and leaves tournamentState
\* (currentConfig, currentStructure, step, isDirty) as it was.
C16_UnregisteredFormatRaises ==
    [][ \A formatType \in RequestedFormatTypes, participants \in RosterArguments :
          ( /\ storeCall'.op = "setCurrentFormat"
            /\ SetCurrentFormat(formatType, participants)
            /\ get(registry, formatType) = << >> ) =>
              /\ storeCall'.threw
              /\ Contains(storeCall'.message, formatType)
              /\ tournamentState' = tournamentState ]_vars

\* The call threw on a store that had a dirty config, a step and a roster to
\* lose.
C16_Witness ==
    /\ storeCall.op = "setCurrentFormat"
    /\ storeCall.threw
    /\ Contains(storeCall.message, "'swiss'")
    /\ tournamentState.isDirty
    /\ tournamentState.step = "review"
    /\ Len(Roster) = 2

\* C17: from any state, setCurrentFormat(type, participants) for a registered
\* type makes currentConfig the default config of that format for the given
\* participants (formatType = type, the same participants in the same order,
\* the roster of the current config when the argument is omitted), sets
\* currentStructure to null, step to "configuration" and isDirty to false.
C17_SetCurrentFormatResets ==
    [][ \A formatType \in RequestedFormatTypes, participants \in RosterArguments :
          ( /\ storeCall'.op = "setCurrentFormat"
            /\ SetCurrentFormat(formatType, participants)
            /\ get(registry, formatType) # << >> ) =>
              /\ ~ storeCall'.threw
              /\ tournamentState'.currentConfig # << >>
              /\ LET after == tournamentState'.currentConfig[1]
                     given == IF participants # << >> THEN participants[1]
                              ELSE IF tournamentState.currentConfig = << >> THEN << >>
                              ELSE tournamentState.currentConfig[1].participants
                 IN  /\ after.formatType = formatType
                     /\ after.id = formatType \o "-config"
                     /\ after.name = get(registry, formatType)[1].name
                     /\ after.participants = given
              /\ tournamentState'.currentStructure = << >>
              /\ tournamentState'.step = "configuration"
              /\ tournamentState'.isDirty = FALSE ]_vars

\* The format was changed to round-robin without a participants argument, on
\* a store holding an updated roster: the roster is still there.
C17_Witness ==
    /\ storeCall.op = "setCurrentFormat"
    /\ ~ storeCall.threw
    /\ tournamentState.currentConfig # << >>
    /\ tournamentState.currentConfig[1].formatType = "round-robin"
    /\ Len(Roster) = 2
    /\ Roster[1].name = "Updated"
    /\ tournamentState.step = "configuration"
    /\ ~ tournamentState.isDirty

\* C18: updateParticipant(id, changes) for an id of the roster merges the
\* changes into that participant only: the other participants, the length
\* and the order of the roster stay, currentStructure becomes null, isDirty
\* true, updatedAt the time of the call, and step stays.
C18_UpdateParticipantFrame ==
    [][ \A participantId \in UpdateIds, changes \in ParticipantChanges :
          ( /\ storeCall'.op = "updateParticipant"
            /\ UpdateParticipant(participantId, changes)
            /\ tournamentState.currentConfig # << >>
            /\ \E i \in 1..Len(Roster) : Roster[i].id = participantId ) =>
              LET before == tournamentState.currentConfig[1]
                  after  == tournamentState'.currentConfig[1]
              IN  /\ Len(after.participants) = Len(before.participants)
                  /\ \A i \in 1..Len(before.participants) :
                        IF before.participants[i].id = participantId
                        THEN after.participants[i] =
                                 mergeParticipant(before.participants[i], changes)
                        ELSE after.participants[i] = before.participants[i]
                  /\ after.updatedAt = now
                  /\ after.updatedAt >= before.updatedAt
                  /\ [after EXCEPT !.participants = << >>, !.updatedAt = 0]
                         = [before EXCEPT !.participants = << >>, !.updatedAt = 0]
                  /\ tournamentState'.currentStructure = << >>
                  /\ tournamentState'.isDirty = TRUE
                  /\ tournamentState'.step = tournamentState.step ]_vars

\* One participant of two was renamed and reseeded after a structure had
\* been generated, later than the config was created.
C18_Witness ==
    /\ storeCall.op = "updateParticipant"
    /\ tournamentState.currentConfig # << >>
    /\ Roster = << [id |-> "p1", name |-> "Updated", seed |-> 2],
                   [id |-> "p2", name |-> "Bravo", seed |-> 1] >>
    /\ tournamentState.currentConfig[1].updatedAt > tournamentState.currentConfig[1].createdAt
    /\ tournamentState.isDirty
    /\ tournamentState.currentStructure = << >>
    /\ tournamentState.step = "participants"

\* updateParticipant(id, changes) called for each update in list order.
RECURSIVE updateEach(_, _, _)
updateEach(state, updates, timestamp) ==
    IF updates = << >> THEN state
    ELSE updateEach(updateParticipant(state, Head(updates).id, Head(updates).changes, timestamp),
                    Tail(updates), timestamp)

\* Some update of the list finds its id in the roster the updates before it
\* left.
SomeUpdateMatches(state, updates) ==
    \E k \in 1..Len(updates) :
        matches(currentParticipants(updateEach(state, SubSeq(updates, 1, k - 1), 0)),
                updates[k].id)

\* C19: whatever the roster and the list of updates,
\* updateMultipleParticipants(updates) leaves the roster that calling
\* updateParticipant(id, changes) for each update in list order leaves, and
\* when some update matched a participant it sets currentStructure to null
\* and isDirty to true as a single updateParticipant does.
C19_BatchEqualsSequence ==
    \A updates \in UpdateLists :
        LET batch    == updateMultipleParticipants(tournamentState, updates, now)
            sequence == updateEach(tournamentState, updates, now)
        IN  /\ currentParticipants(batch) = currentParticipants(sequence)
            /\ batch = sequence
            /\ (tournamentState.currentConfig # << >>
                  /\ SomeUpdateMatches(tournamentState, updates)) =>
                    /\ batch.currentStructure = << >>
                    /\ batch.isDirty = TRUE
                    /\ batch.currentConfig[1].updatedAt = now

\* A batch has run whose first update gave "p1" the id "p2" and whose
\* second update then changed both participants called "p2".
C19_Witness ==
    /\ storeCall.op = "updateMultipleParticipants"
    /\ Roster = << [id |-> "p2", name |-> "Updated", seed |-> 2],
                   [id |-> "p2", name |-> "Updated", seed |-> 2] >>
    /\ tournamentState.isDirty
    /\ tournamentState.currentStructure = << >>

----------------------------------------------------------------------------
(* Properties of the registry, checked under SpecRegistry *)

\* C20: register rejects a second registration for a type that is already
\* registered by throwing an error that names the type, and leaves the
\* registry as it was: get(type) still returns the format registered first
\* and getAll() still lists the formats in their insertion order.
C20_DuplicateRegistrationRejected ==
    [][ \A format \in RegistryFormats :
          (Register(format) /\ has(registry, format.type)) =>
              /\ registryCall'.threw
              /\ Contains(registryCall'.message, "'" \o format.type \o "'")
              /\ get(registry', format.type) = get(registry, format.type)
              /\ getAll(registry') = getAll(registry)
              /\ registry' = registry ]_vars

\* Two formats are registered and a different format of the first one's
\* type was refused.
C20_Witness ==
    /\ Len(registry) = 2
    /\ registryCall.threw
    /\ registryCall.argument = registry[1].type
    /\ registryCall.format # <<registry[1]>>
    /\ get(registry, registryCall.argument) = <<registry[1]>>
    /\ getAll(registry)[2].type # registry[1].type

----------------------------------------------------------------------------
(* Properties of export and import, checked under SpecExport *)

\* A value without the properties that are undefined: what an equality that
\* cannot tell an undefined property from a missing one compares.
RECURSIVE WithoutUndefined(_)
WithoutUndefined(value) ==
    CASE value.kind = "array" ->
            Arr([i \in 1..Len(value.items) |-> WithoutUndefined(value.items[i])])
      [] value.kind = "object" ->
            Obj([k \in { k \in DOMAIN value.fields : value.fields[k].kind # "undefined" } |->
                    WithoutUndefined(value.fields[k])])
      [] OTHER -> value

SameValue(a, b) == WithoutUndefined(a) = WithoutUndefined(b)

\* No number in the value is NaN and no date in it is an Invalid Date.
RECURSIVE IsFinite(_)
IsFinite(value) ==
    /\ value.kind # "NaN"
    /\ \A i \in 1..Len(value.items) : IsFinite(value.items[i])
    /\ \A k \in DOMAIN value.fields : IsFinite(value.fields[k])

\* The registry holds a format of the type, and its validateConfig accepts.
Accepted(formatType) ==
    /\ formatType.kind = "string"
    /\ get(registry, formatType.str) # << >>
    /\ get(registry, formatType.str)[1].valid

\* The call imported the text that an export made of a config of an
\* accepting, registered format.
ImportedExport ==
    /\ exportCall.op = "importExported"
    /\ Accepted(Field(exportCall.config, "formatType"))

FiniteExport ==
    /\ ImportedExport
    /\ IsFinite(exportCall.config)
    /\ IsFinite(exportCall.structure)

\* The import succeeded with the format, config and structure of the export.
RoundTripped(call) ==
    /\ call.result.success
    /\ Str(call.result.format) = Field(call.config, "formatType")
    /\ SameValue(call.result.config, call.config)
    /\ SameValue(call.result.structure, call.structure)

IsString(value) == value.kind = "string"

\* The payload is an object with a format type for format, an object for
\* config, an object with a string type for structure, and the format for
\* config.formatType.
WellFormedPayload(payload) ==
    /\ payload.kind = "object"
    /\ IsString(Field(payload, "format"))
    /\ Field(payload, "format").str \in TournamentFormatType
    /\ Field(payload, "config").kind = "object"
    /\ Field(payload, "structure").kind = "object"
    /\ IsString(Field(Field(payload, "structure"), "type"))
    /\ Field(Field(payload, "config"), "formatType") = Field(payload, "format")

\* The string is the text of a date.
IsDateText(value) == IsString(value) /\ DateParse(value.str).kind = "number"

\* No field of the config is missing or wrongly typed.
WellTypedConfig(imported) ==
    /\ IsString(Field(imported, "id"))
    /\ IsString(Field(imported, "name"))
    /\ IsString(Field(imported, "formatType"))
    /\ IsDateText(Field(imported, "createdAt"))
    /\ IsDateText(Field(imported, "updatedAt"))
    /\ Field(imported, "participants").kind = "array"
    /\ \A i \in 1..Len(Field(imported, "participants").items) :
          LET participant == Field(imported, "participants").items[i]
          IN  /\ participant.kind = "object"
              /\ IsString(Field(participant, "id"))
              /\ IsString(Field(participant, "name"))

ImportErrorCodes == {"invalid-json", "invalid-schema", "unknown-format", "validation-failed"}

\* The code the claim gives a text, "" for a text it lets succeed.
ClaimedCode(json) ==
    LET payload == json.value
        format  == Field(payload, "format")
    IN  IF ~ json.wellFormed THEN "invalid-json"
        ELSE IF ~ WellFormedPayload(payload) THEN "invalid-schema"
        ELSE IF get(registry, format.str) = << >> THEN "unknown-format"
        ELSE IF ~ WellTypedConfig(Field(payload, "config")) THEN "invalid-schema"
        ELSE IF ~ get(registry, format.str)[1].valid THEN "validation-failed"
        ELSE ""

\* C14: importTournament returns a result for every text: a failure has
\* exactly one of the four codes, and the code is invalid-json for malformed
\* JSON, invalid-schema for a payload that is not well formed, unknown-format
\* for a well-formed payload of an unregistered format, invalid-schema for
\* missing or wrongly typed config fields of a registered format, and
\* validation-failed for a config its validateConfig rejects.
Classified ==
    /\ exportCall.result.success \/ exportCall.result.code \in ImportErrorCodes
    /\ exportCall.result.success <=> ClaimedCode(exportCall.json) = ""
    /\ ~ exportCall.result.success => exportCall.result.code = ClaimedCode(exportCall.json)

C14_ImportErrorCodes ==
    [][ ( /\ exportCall'.op = "importTournament"
          /\ ImportTournament(exportCall'.json) ) => Classified' ]_vars

C14_Witness ==
    /\ exportCall.op = "importTournament"
    /\ WellFormedPayload(exportCall.json.value)
    /\ WellTypedConfig(Field(exportCall.json.value, "config"))
    /\ Len(Field(Field(exportCall.json.value, "config"), "participants").items) = 1
    /\ ~ exportCall.result.success
    /\ exportCall.result.code = "validation-failed"

----------------------------------------------------------------------------
(* Properties of local storage, checked under SpecStorage *)

\* The storage holds a tournament under the key of the last call, saved
\* through a storage that works.
Saved ==
    /\ exportCall.op \in {"saveToLocalStorage", "loadFromLocalStorage"}
    /\ exportCall.storage = "works"
    /\ exportCall.key \in DOMAIN localStorage

\* loadFromLocalStorage({ key }) right after the last call, through a storage
\* that works, as a call with the saved config and structure for arguments.
LoadedBack ==
    [exportCall EXCEPT
        !.config = localStorage[exportCall.key].config,
        !.structure = localStorage[exportCall.key].structure,
        !.result = loadFromLocalStorage([key |-> exportCall.key, available |-> TRUE,
                                         getItemThrows |-> FALSE], localStorage, registry)]

\* Loading a key nothing was saved under gives not-found; saving or loading
\* without a storage gives unavailable; no save invokes the browser download.
StorageErrors ==
    /\ ( /\ exportCall.op = "loadFromLocalStorage"
         /\ exportCall.storage = "works"
         /\ exportCall.key \notin DOMAIN localStorage ) =>
            ~ exportCall.result.success /\ exportCall.result.code = "not-found"
    /\ ( /\ exportCall.op \in {"saveToLocalStorage", "loadFromLocalStorage"}
         /\ exportCall.storage = "none" ) =>
            ~ exportCall.result.success /\ exportCall.result.code = "unavailable"
    /\ ~ downloaded

\* A successful save stored the tournament under its key.
SaveStores ==
    ( /\ exportCall.op = "saveToLocalStorage"
      /\ exportCall.storage = "works"
      /\ exportCall.result.success ) => exportCall.key \in DOMAIN localStorage

----------------------------------------------------------------------------
(* Properties of step navigation and of the no-op updates, checked under
   SpecStore *)

\* The order of the builder steps, as the claims give it.
StepOrder == <<"format-selection", "configuration", "participants", "review">>

\* The 1-based position of a step in that order.
StepPosition(step) == CHOOSE i \in 1..Len(StepOrder) : StepOrder[i] = step

\* currentConfig, currentStructure and isDirty are what they were.
NavigationFrame ==
    /\ tournamentState'.currentConfig = tournamentState.currentConfig
    /\ tournamentState'.currentStructure = tournamentState.currentStructure
    /\ tournamentState'.isDirty = tournamentState.isDirty

\* C21: on a step beyond the first goToPreviousStep sets the step to the one
\* before it in the order format-selection, configuration, participants,
\* review and returns it; on format-selection it returns null and leaves the
\* step.  goToNextStep does the same forwards, with null on review.  Neither
\* changes currentConfig, currentStructure or isDirty.
C21_StepNavigation ==
    [][ /\ ( storeCall'.op = "goToPreviousStep" /\ GoToPreviousStep ) =>
              /\ NavigationFrame
              /\ IF StepPosition(tournamentState.step) > 1
                 THEN /\ tournamentState'.step = StepOrder[StepPosition(tournamentState.step) - 1]
                      /\ storeCall'.result = tournamentState'.step
                 ELSE /\ tournamentState'.step = tournamentState.step
                      /\ storeCall'.result = "null"
        /\ ( storeCall'.op = "goToNextStep" /\ GoToNextStep ) =>
              /\ NavigationFrame
              /\ IF StepPosition(tournamentState.step) < Len(StepOrder)
                 THEN /\ tournamentState'.step = StepOrder[StepPosition(tournamentState.step) + 1]
                      /\ storeCall'.result = tournamentState'.step
                 ELSE /\ tournamentState'.step = tournamentState.step
                      /\ storeCall'.result = "null" ]_vars

\* goToPreviousStep went back to the participants step of a store with a
\* dirty config and a roster.
C21_Witness ==
    /\ storeCall.op = "goToPreviousStep"
    /\ storeCall.result = "participants"
    /\ tournamentState.step = "participants"
    /\ tournamentState.isDirty
    /\ Len(Roster) = 2

\* No id of the updates is the id of a participant of the roster.
NoUpdateMatches(state, updates) ==
    \A k \in 1..Len(updates) : ~ matches(currentParticipants(state), updates[k].id)

\* C29: updateParticipant called while currentConfig is null, or with an id
\* no participant has, leaves the whole tournamentState as it was; so does
\* updateMultipleParticipants called with an empty list or with ids none of
\* which a participant has.
C29_UnmatchedUpdatesChangeNothing ==
    /\ \A participantId \in UpdateIds, changes \in ParticipantChanges :
          ( tournamentState.currentConfig = << >> \/ ~ matches(Roster, participantId) ) =>
              updateParticipant(tournamentState, participantId, changes, now) = tournamentState
    /\ \A updates \in UpdateLists :
          ( \/ tournamentState.currentConfig = << >>
            \/ Len(updates) = 0
            \/ NoUpdateMatches(tournamentState, updates) ) =>
              updateMultipleParticipants(tournamentState, updates, now) = tournamentState

\* An updateParticipant that no participant of a roster of two matched: the
\* generated structure is still there, later than the config was updated,
\* and the store is clean.
C29_Witness ==
    /\ storeCall.op = "updateParticipant"
    /\ Len(Roster) = 2
    /\ ~ matches(Roster, "p3")
    /\ tournamentState.currentStructure # << >>
    /\ ~ tournamentState.isDirty
    /\ tournamentState.currentConfig[1].updatedAt < now

\* The state after n calls of goToNextStep, and after n of goToPreviousStep.
RECURSIVE afterNext(_, _)
afterNext(state, n) == IF n = 0 THEN state ELSE goToNextStep(afterNext(state, n - 1)).state

RECURSIVE afterPrevious(_, _)
afterPrevious(state, n) ==
    IF n = 0 THEN state ELSE goToPreviousStep(afterPrevious(state, n - 1)).state

\* C30: from any step, every goToNextStep that returns a step moves one step
\* forward in the order, the third call at the latest leaves the step at
\* review, and every call on review returns null and leaves the state;
\* goToPreviousStep does the same backwards down to format-selection; and a
\* goToPreviousStep after a goToNextStep that returned a step restores the
\* state the two calls started from.
C30_RepeatedNavigation ==
    /\ \A n \in 1..MaxCalls :
          LET before == afterNext(tournamentState, n - 1)
              call   == goToNextStep(before)
          IN  /\ call.result # "null" =>
                    /\ call.result = call.state.step
                    /\ StepPosition(call.state.step) = StepPosition(before.step) + 1
              /\ call.result = "null" => before.step = "review" /\ call.state = before
              /\ n >= 3 => call.state.step = "review"
              /\ n > 3 => call.result = "null"
    /\ \A n \in 1..MaxCalls :
          LET before == afterPrevious(tournamentState, n - 1)
              call   == goToPreviousStep(before)
          IN  /\ call.result # "null" =>
                    /\ call.result = call.state.step
                    /\ StepPosition(call.state.step) = StepPosition(before.step) - 1
              /\ call.result = "null" => before.step = "format-selection" /\ call.state = before
              /\ n >= 3 => call.state.step = "format-selection"
              /\ n > 3 => call.result = "null"
    /\ LET forward == goToNextStep(tournamentState)
       IN  forward.result # "null" => goToPreviousStep(forward.state).state = tournamentState

\* goToNextStep was called on review, returned null and left the step.
C30_Witness ==
    /\ storeCall.op = "goToNextStep"
    /\ storeCall.result = "null"
    /\ tournamentState.step = "review"
    /\ tournamentState.currentConfig # << >>

----------------------------------------------------------------------------
(* Properties of the builder, checked under SpecBuilder *)

\* The step is a setCurrentFormat that did not throw.
SuccessfulSetCurrentFormat ==
    /\ storeCall'.op = "setCurrentFormat"
    /\ ~ storeCall'.threw
    /\ \E formatType \in RequestedFormatTypes, participants \in RosterArguments :
          SetCurrentFormat(formatType, participants)

\* The step is an update of participants that matched a participant.
MatchingUpdate ==
    \/ /\ storeCall'.op = "updateParticipant"
       /\ \E participantId \in UpdateIds, changes \in ParticipantChanges :
             UpdateParticipant(participantId, changes) /\ matches(Roster, participantId)
    \/ /\ storeCall'.op = "updateMultipleParticipants"
       /\ \E updates \in UpdateLists :
             UpdateMultipleParticipants(updates) /\ SomeUpdateMatches(tournamentState, updates)

\* C28: over the operations setCurrentFormat, setCurrentStep, goToNextStep,
\* goToPreviousStep, updateParticipant and updateMultipleParticipants from
\* the initial state, isDirty stays true until a setCurrentFormat succeeds,
\* becomes true only by an update that matched a participant, and
\* currentStructure is null whenever isDirty is true.
C28_DirtyUntilFormatChange ==
    /\ [](tournamentState.isDirty => tournamentState.currentStructure = << >>)
    /\ [][ /\ ( tournamentState.isDirty /\ ~ tournamentState'.isDirty ) =>
                SuccessfulSetCurrentFormat
           /\ ( ~ tournamentState.isDirty /\ tournamentState'.isDirty ) =>
                MatchingUpdate ]_vars

\* A dirty store outlived a step change: the last call went forward to
\* review.
C28_Witness ==
    /\ tournamentState.isDirty
    /\ storeCall.op = "goToNextStep"
    /\ storeCall.result = "review"
    /\ tournamentState.currentStructure = << >>
    /\ Len(Roster) = 2

----------------------------------------------------------------------------
(* Further properties of seeding, checked under SpecSeeding *)

\* The 1-based slot a canonical seed order gives a seed number.
CanonicalSlot(order, seedNumber) ==
    CHOOSE k \in 1..Len(order) : order[k] = seedNumber

\* C26: with method "seeded" the seed number of a participant is its seed
\* field or, without one, its 1-based position in the participant list; when
\* the seed numbers of all participants are distinct and at most the bracket
\* size, every participant is in the slot the canonical seed order gives its
\* seed number, and every other slot is null.
C26_SeededPlacement ==
    LET participants == seedingCall.participants
        size         == Len(seedingSlots)
        seeds        == [i \in 1..SeedingCount |-> ListedSeed(participants, participants[i])]
    IN  ( /\ Seeded
          /\ seedingCall.options.method = "seeded"
          /\ \A i \in 1..SeedingCount : seeds[i] <= size
          /\ \A i, j \in 1..SeedingCount : i # j => seeds[i] # seeds[j] ) =>
            LET order  == buildSeedSlotOrder(size)
                slotOf == [i \in 1..SeedingCount |-> CanonicalSlot(order, seeds[i])]
            IN  /\ \A i \in 1..SeedingCount : seedingSlots[slotOf[i]] = participants[i]
                /\ \A k \in 1..size :
                      (\A i \in 1..SeedingCount : slotOf[i] # k) => seedingSlots[k] = null

\* The slots of the order, 1-based, that hold the seeds 1..count.
SlotsOfTopSeeds(order, count) == { k \in 1..Len(order) : order[k] \in 1..count }

\* The 0-based block of blockSize slots that the 1-based slot k lies in.
BlockOf(k, blockSize) == (k - 1) \div blockSize

\* C27: for a power-of-two size S >= 2 the canonical seed order is a
\* permutation of 1..S, and for every power of two T <= S the seeds 1..T lie
\* in T different contiguous blocks of S / T slots; seeds 1 and 2 are in
\* opposite halves.
C27_SeedOrderBlocks ==
    ( Seeded /\ seedingCall.options.method = "seeded" ) =>
        LET size  == Len(seedingSlots)
            order == buildSeedSlotOrder(size)
        IN  /\ Len(order) = size
            /\ \A s \in 1..size : Cardinality({ k \in 1..size : order[k] = s }) = 1
            /\ \A top \in 2..size :
                  IsPowerOfTwo(top) =>
                      Cardinality({ BlockOf(k, size \div top) :
                                      k \in SlotsOfTopSeeds(order, top) }) = top
            /\ BlockOf(CanonicalSlot(order, 1), size \div 2)
                  # BlockOf(CanonicalSlot(order, 2), size \div 2)

\* The order of the bracket of 16 placed 16 participants: seed 1 first, seed
\* 2 first in the second half, seeds 3 and 4 in the quarters between.
C27_Witness ==
    /\ Seeded
    /\ seedingCall.options.method = "seeded"
    /\ Len(seedingSlots) = 16
    /\ SeedingCount = 16
    /\ SeedsAreOneToN(seedingCall.participants)
    /\ seedingSlots[1].seed = 1
    /\ seedingSlots[9].seed = 2
    /\ seedingSlots[13].seed = 3
    /\ seedingSlots[5].seed = 4

----------------------------------------------------------------------------
(* Further properties of the generator, checked under Spec *)

\* The matches of the round with the 1-based number.
MatchesOf(roundNumber) == Returned.rounds[roundNumber].matches

\* The slot of a match, 1 for participant1 and 2 for participant2.
SlotOf(match, slot) == IF slot = 1 THEN match.participant1 ELSE match.participant2

\* The match of the round before that feeds the slot of the match at the
\* 1-based position m.
FeederOf(roundNumber, m, slot) == MatchesOf(roundNumber - 1)[2 * (m - 1) + slot]

\* The match with the id, among the matches.
MatchWithId(roundMatches, id) ==
    roundMatches[CHOOSE t \in 1..Len(roundMatches) : roundMatches[t].id = id]

\* The match at position m of a round >= 2 holds a participant in the slot,
\* advanced from the feeder of that slot, and the feeder of its other slot
\* has no participant at all.
ChainedBye(roundNumber, m, slot) ==
    /\ SlotOf(MatchesOf(roundNumber)[m], slot) # null
    /\ FeederOf(roundNumber, m, slot).winner = SlotOf(MatchesOf(roundNumber)[m], slot)
    /\ FeederOf(roundNumber, m, 3 - slot).participant1 = null
    /\ FeederOf(roundNumber, m, 3 - slot).participant2 = null

\* C23: in every generated bracket a match of a round k >= 2 that received a
\* participant by bye advancement into one slot, while the match feeding its
\* other slot has no participants, is itself a walkover: its winner is that
\* participant, who is also in the matching slot of its match in round k + 1.
C23_ChainedByesResolve ==
    Generated =>
        \A roundNumber \in 2..Len(Returned.rounds) :
            \A m \in 1..Len(MatchesOf(roundNumber)), slot \in {1, 2} :
                ChainedBye(roundNumber, m, slot) =>
                    LET match == MatchesOf(roundNumber)[m]
                    IN  /\ match.winner = SlotOf(match, slot)
                        /\ roundNumber < Len(Returned.rounds) =>
                              SlotOf(MatchWithId(MatchesOf(roundNumber + 1), match.feedsInto),
                                     IF m % 2 = 1 THEN 1 ELSE 2) = match.winner

\* C24: a first-round match is a bye exactly when one of its two slots is
\* occupied, and then its winner is the occupant; with both slots filled or
\* both empty it is no bye and has no winner; and with bracketSize "auto" no
\* first-round match has both slots empty.
C24_FirstRoundByes ==
    (Generated /\ Len(Returned.rounds) >= 1) =>
        \A m \in 1..Len(FirstRoundMatches) :
            LET match    == FirstRoundMatches[m]
                occupied == Cardinality({ slot \in {1, 2} : SlotOf(match, slot) # null })
            IN  /\ match.isBye = "true" <=> occupied = 1
                /\ occupied = 1 =>
                      /\ match.winner # null
                      /\ match.winner \in {match.participant1, match.participant2}
                /\ occupied # 1 => match.isBye = "false" /\ match.winner = null
                /\ config.options.bracketSize = auto => occupied # 0

\* C25: the winner of the first-round match at 0-based index i is, in the
\* returned bracket, participant1 (i even) or participant2 (i odd) of the
\* round-2 match whose id is the feedsInto of the first-round match; a slot
\* of a round-2 match fed by a match without a winner is null; so no slot
\* of round 2 holds anything but the winner of the match that feeds it.
C25_ByePropagation ==
    (Generated /\ Len(Returned.rounds) >= 1) =>
        /\ \A m \in 1..Len(FirstRoundMatches) :
              FirstRoundMatches[m].winner # null =>
                  /\ Len(Returned.rounds) >= 2
                  /\ \E t \in 1..Len(MatchesOf(2)) :
                        MatchesOf(2)[t].id = FirstRoundMatches[m].feedsInto
                  /\ SlotOf(MatchWithId(MatchesOf(2), FirstRoundMatches[m].feedsInto),
                            IF (m - 1) % 2 = 0 THEN 1 ELSE 2) = FirstRoundMatches[m].winner
        /\ Len(Returned.rounds) >= 2 =>
              \A t \in 1..Len(MatchesOf(2)), slot \in {1, 2} :
                  SlotOf(MatchesOf(2)[t], slot) = FeederOf(2, t, slot).winner

\* Three participants in a bracket of four, seeded: the first match is the
\* bye of seed 1, who is participant1 of the final, whose other slot waits
\* for the winner of the second match.
C25_Witness ==
    /\ Generated
    /\ Len(config.participants) = 3
    /\ config.options.seedingMethod = "seeded"
    /\ Len(Returned.rounds) = 2
    /\ FirstRoundMatches[1].isBye = "true"
    /\ FirstRoundMatches[1].winner # null
    /\ MatchesOf(2)[1].participant1 = FirstRoundMatches[1].winner
    /\ FirstRoundMatches[2].winner = null
    /\ MatchesOf(2)[1].participant2 = null

----------------------------------------------------------------------------
(* Properties of validateConfig, checked under SpecValidation *)

EliminationFormatTypes == {"single-elimination", "double-elimination"}

\* The last call was validateConfig of a registered elimination format.
ValidatedElimination ==
    /\ storeCall.op = "validateConfig"
    /\ storeCall.format.type \in EliminationFormatTypes

\* C22: validateConfig of a registered elimination format does not throw;
\* for a config with fewer than 2 participants it returns valid = false with
\* at least one error entry, and it returns valid = true only for a config
\* with at least 2 participants.
C22_ValidateConfigReportsErrors ==
    ValidatedElimination =>
        /\ ~ storeCall.threw
        /\ Len(storeCall.config.participants) < 2 =>
              /\ ~ storeCall.validation.valid
              /\ Len(storeCall.validation.errors) >= 1
        /\ storeCall.validation.valid => Len(storeCall.config.participants) >= 2

====
